---- MODULE Spec2Model ----
(***************************************************************************)
(* Model of wads' CI-configuration extraction and external-dependency      *)
(* resolution engine (src/wads/ci_config.py) and of the migration of        *)
(* legacy system dependencies (src/wads/external_deps_migration.py).       *)
(*                                                                         *)
(* Python str values that the code inspects character by character         *)
(* (DepURLs, simple names) are sequences of one-character strings.         *)
(* Python str values the code only compares, concatenates or joins         *)
(* (shell commands, package names, YAML lines) are TLA+ strings.           *)
(***************************************************************************)
EXTENDS Integers, Sequences, FiniteSets, TLC

VARIABLES
    doc,      \* CIConfig.data: the wrapped pyproject document
    doc0,     \* the document as it was handed to CIConfig.__init__
    first,    \* per recorded platform: what the first generate_pre_test_steps call returned
    last,     \* the most recent generator call and what it returned
    depurl,   \* argument of the DepURL codec call
    valid,    \* what _validate_depurl returned for depurl
    simple,   \* what _depurl_to_simple_name returned for depurl
    file,     \* the pyproject.toml on disk: absent, or its content
    bak,      \* the pyproject.toml.bak on disk: absent, or its content
    pc,       \* the statement apply_migration is about to execute
    call,     \* the running or most recent apply_migration call
    analysis, \* the most recent analyze_migration_needed call: the file it read, and what it returned
    package_name,    \* argument of the package-name functions
    normalized_name  \* what normalize_package_name returned for package_name

vars == <<doc, doc0, first, last, depurl, valid, simple, file, bak, pc, call, analysis, package_name, normalized_name>>

----------------------------------------------------------------------------
(* Bounds *)

\* largest number of DepURLs declared over build/host/runtime together
MaxDeps == 2

\* largest number of characters following the scheme candidate of a codec input
MaxTail == 5

\* largest number of pieces (a character or the literal 'dep:') of a
\* _depurl_to_simple_name argument
MaxChunks == 5

\* largest number of pieces (a character, 'lib' or '-dev') of a generated package name
MaxPieces == 4

----------------------------------------------------------------------------
(* Optional values: a key of a mapping that may be absent *)

None == [has |-> FALSE]

Some(v) == [has |-> TRUE, v |-> v]

\* dict.get(key, default)
GetOr(o, default) == IF o.has THEN o.v ELSE default

----------------------------------------------------------------------------
(* Python str / list primitives *)

\* s.startswith(prefix)
StartsWith(s, prefix) ==
    /\ Len(s) >= Len(prefix)
    /\ SubSeq(s, 1, Len(prefix)) = prefix

\* s[n:]
DropFirst(s, n) == IF n >= Len(s) THEN <<>> ELSE SubSeq(s, n + 1, Len(s))

\* s.split(ch)[0]: the text before the first occurrence of ch
RECURSIVE SplitHead(_, _)
SplitHead(s, ch) ==
    IF s = <<>> \/ Head(s) = ch
    THEN <<>>
    ELSE <<Head(s)>> \o SplitHead(Tail(s), ch)

\* s.split(ch): the list of segments, [''] for the empty string
RECURSIVE Split(_, _)
Split(s, ch) ==
    LET head == SplitHead(s, ch)
    IN  IF Len(head) = Len(s)
        THEN <<head>>
        ELSE <<head>> \o Split(DropFirst(s, Len(head) + 1), ch)

\* s.replace(old, ''): every non-overlapping occurrence removed, left to right
RECURSIVE RemoveAll(_, _)
RemoveAll(s, old) ==
    IF s = <<>> THEN <<>>
    ELSE IF StartsWith(s, old) THEN RemoveAll(DropFirst(s, Len(old)), old)
    ELSE <<Head(s)>> \o RemoveAll(Tail(s), old)

\* s.replace(old, new) for single characters
RECURSIVE ReplaceChar(_, _, _)
ReplaceChar(s, old, new) ==
    IF s = <<>> THEN <<>>
    ELSE <<IF Head(s) = old THEN new ELSE Head(s)>> \o ReplaceChar(Tail(s), old, new)

\* sep.join(items) for a list of str
RECURSIVE Join(_, _)
Join(items, sep) ==
    IF items = <<>> THEN ""
    ELSE IF Len(items) = 1 THEN items[1]
    ELSE Join(SubSeq(items, 1, Len(items) - 1), sep) \o sep \o items[Len(items)]

\* the literal 'dep:'
Scheme == <<"d", "e", "p", ":">>

----------------------------------------------------------------------------
(* DepURL codec *)

\* _depurl_to_simple_name without the split at '#'
depurl_to_simple_name_keeps_fragment(d) ==
    LET without_scheme == RemoveAll(d, Scheme)
        without_version == SplitHead(SplitHead(without_scheme, "@"), "?")
        parts == Split(without_version, "/")
    IN  IF Len(parts) = 2 THEN parts[2]
        ELSE IF Len(parts) = 3 THEN parts[2] \o <<"-">> \o parts[3]
        ELSE ReplaceChar(without_version, "/", "-")

depurl_to_simple_name(d) ==
    LET without_scheme == RemoveAll(d, Scheme)
        without_version ==
            SplitHead(SplitHead(SplitHead(without_scheme, "@"), "?"), "#")
        parts == Split(without_version, "/")
    IN  IF Len(parts) = 2 THEN parts[2]
        ELSE IF Len(parts) = 3 THEN parts[2] \o <<"-">> \o parts[3]
        ELSE ReplaceChar(without_version, "/", "-")

\* _validate_depurl without the all(part for part in parts) test
validate_depurl_any_segments(d) ==
    IF ~StartsWith(d, Scheme) THEN FALSE
    ELSE
        LET rest == SplitHead(SplitHead(SplitHead(DropFirst(d, 4), "@"), "?"), "#")
            parts == Split(rest, "/")
        IN  Len(parts) >= 2

validate_depurl(d) ==
    IF ~StartsWith(d, Scheme) THEN FALSE
    ELSE
        LET rest == SplitHead(SplitHead(SplitHead(DropFirst(d, 4), "@"), "?"), "#")
            parts == Split(rest, "/")
        IN  Len(parts) >= 2 /\ \A i \in 1..Len(parts) : parts[i] # <<>>

----------------------------------------------------------------------------
(* The configuration document *)

\* platform arguments of generate_pre_test_steps
Platforms == {"linux", "macos", "windows", "ubuntu"}

\* DepURLs that documents declare
dA == <<"d", "e", "p", ":", "g", "/", "a">>

dCX == <<"d", "e", "p", ":", "v", "/", "c", "/", "x", "@", "1">>

dBad == <<"g", "/", "a">>

DepURLs == {dA, dCX, dBad}

\* keys of [tool.wads.external.ops]
nA == <<"a">>

nCX == <<"c", "-", "x">>

\* an install value: a TOML string or a TOML array of strings
Str(v) == [kind |-> "str", text |-> v]

List(v) == [kind |-> "list", items |-> v]

\* a TOML table of platform name -> array of strings
Dict(v) == [kind |-> "dict", table |-> v]

\* entries of [tool.wads.external.ops.a]
OpsEntriesA == {
    [canonical_id |-> dA, install |-> None],
    [canonical_id |-> dA, install |-> Some(
        "linux" :> Str("sudo apt-get install -y a")
        @@ "windows" :> List(<<"choco install -y a", "refreshenv">>))],
    [canonical_id |-> dA, install |-> Some(
        "linux" :> List(<<"sudo apt-get update", "sudo apt-get install -y a">>)
        @@ "macos" :> Str("brew install a"))] }

\* entries of [tool.wads.external.ops.c-x]
OpsEntriesCX == {
    [canonical_id |-> dCX, install |-> Some(
        "linux" :> List(<<"sudo apt-get update", "sudo apt-get install -y gcc">>)
        @@ "windows" :> Str("choco install -y mingw"))] }

\* the [tool.wads.external.ops] tables
OpsTables ==
    LET forA == {<<>>} \cup {nA :> e : e \in OpsEntriesA}
        forCX == {<<>>} \cup {nCX :> e : e \in OpsEntriesCX}
    IN  {a @@ c : a \in forA, c \in forCX}

\* [tool.wads.ci.testing.system_dependencies]: absent, a list, or a mapping
SystemDependencies == {
    None,
    Some(List(<<"ffmpeg", "a">>)),
    Some(Dict("ubuntu" :> <<"a">> @@ "windows" :> <<"ffmpeg", "a">>)),
    Some(Dict("macos" :> <<"ffmpeg">>)) }

\* [tool.wads.ci.commands.pre_test]
PreTestCommands == Some(<<"python setup_test_data.py", "make fixtures">>)

\* [tool.wads.ci.commands.pre_test] with [tool.wads.ci.testing.test_on_windows]:
\* neither generator reads both
CISettings == {
    [pre_test |-> None, test_on_windows |-> None],
    [pre_test |-> PreTestCommands, test_on_windows |-> Some(TRUE)],
    [pre_test |-> None, test_on_windows |-> Some(FALSE)],
    [pre_test |-> PreTestCommands, test_on_windows |-> Some(FALSE)] }

\* all sequences over S of length n
SeqsOfLen(S, n) == [1..n -> S]

\* the three required lists of [external], at most MaxDeps DepURLs in all
ExternalTables ==
    {[build_requires |-> b, host_requires |-> h, dependencies |-> r] :
        <<b, h, r>> \in
            {t \in UNION {SeqsOfLen(DepURLs, i) \X SeqsOfLen(DepURLs, j)
                            \X SeqsOfLen(DepURLs, k) :
                            <<i, j, k>> \in (0..MaxDeps) \X (0..MaxDeps) \X (0..MaxDeps)} :
                Len(t[1]) + Len(t[2]) + Len(t[3]) <= MaxDeps}}

\* a list key of [external] holds its list, or is absent when the list is empty
Declared(l) == IF l = <<>> THEN None ELSE Some(l)

\* the keys of [tool.wads.ci] and [external] that the generators and the
\* migration do not read, all absent
OtherSettingsAbsent ==
    [ci_project_name |-> None,
     test |-> None, post_test |-> None, lint |-> None, format |-> None,
     env_required |-> None, env_defaults |-> None,
     ruff_enabled |-> None, black_enabled |-> None, mypy_enabled |-> None,
     python_versions |-> None, coverage_enabled |-> None, coverage_threshold |-> None,
     sdist |-> None, wheel |-> None, publish_enabled |-> None,
     docs_enabled |-> None, docs_builder |-> None, docs_ignore_paths |-> None,
     optional_build_requires |-> None, optional_host_requires |-> None]

Documents ==
    {[project_name |-> Some("test-project"),
      build_requires |-> Declared(e.build_requires),
      host_requires |-> Declared(e.host_requires),
      dependencies |-> Declared(e.dependencies),
      ops |-> o,
      system_dependencies |-> sd,
      pre_test |-> ci.pre_test,
      test_on_windows |-> ci.test_on_windows,
      exclude_paths |-> None,
      pytest_args |-> None,
      optional_dependencies |-> None,
      dependency_groups |-> None,
      env_install |-> None] @@ OtherSettingsAbsent :
        e \in ExternalTables, o \in OpsTables, sd \in SystemDependencies,
        ci \in CISettings}

\* {"project": {"name": ...}} and nothing else
EmptyDocument ==
    [project_name |-> Some("test-project"),
     build_requires |-> None, host_requires |-> None, dependencies |-> None,
     ops |-> <<>>, system_dependencies |-> None, pre_test |-> None,
     test_on_windows |-> None, exclude_paths |-> None, pytest_args |-> None,
     optional_dependencies |-> None, dependency_groups |-> None, env_install |-> None]
    @@ OtherSettingsAbsent

----------------------------------------------------------------------------
(* CIConfig accessors *)

\* CIConfig._parse_external_dependencies
external_dependencies(d) ==
    [build |-> GetOr(d.build_requires, <<>>),
     host |-> GetOr(d.host_requires, <<>>),
     runtime |-> GetOr(d.dependencies, <<>>),
     optional_build |-> GetOr(d.optional_build_requires, <<>>),
     optional_host |-> GetOr(d.optional_host_requires, <<>>),
     optional_runtime |-> GetOr(d.optional_dependencies, <<>>),
     groups |-> GetOr(d.dependency_groups, <<>>)]

\* CIConfig._parse_external_ops
external_ops(d) == d.ops

commands_pre_test(d) == GetOr(d.pre_test, <<>>)

\* test_on_windows with False as the default
test_on_windows_default_false(d) == GetOr(d.test_on_windows, FALSE)

test_on_windows(d) == GetOr(d.test_on_windows, TRUE)

exclude_paths(d) == GetOr(d.exclude_paths, <<"examples", "scrap">>)

pytest_args(d) == GetOr(d.pytest_args, <<"-v", "--tb=short">>)

system_dependencies(d) == GetOr(d.system_dependencies, List(<<>>))

commands_test(d) == GetOr(d.test, <<"pytest">>)

commands_post_test(d) == GetOr(d.post_test, <<>>)

commands_lint(d) == GetOr(d.lint, <<>>)

commands_format(d) == GetOr(d.format, <<>>)

env_vars_required(d) == GetOr(d.env_required, <<>>)

env_vars_defaults(d) == GetOr(d.env_defaults, <<>>)

is_ruff_enabled(d) == GetOr(d.ruff_enabled, TRUE)

is_black_enabled_default_true(d) == GetOr(d.black_enabled, TRUE)

is_black_enabled(d) == GetOr(d.black_enabled, FALSE)

is_mypy_enabled(d) == GetOr(d.mypy_enabled, FALSE)

python_versions_default_empty(d) == GetOr(d.python_versions, <<>>)

python_versions(d) == GetOr(d.python_versions, <<"3.10", "3.12">>)

coverage_enabled(d) == GetOr(d.coverage_enabled, TRUE)

coverage_threshold(d) == GetOr(d.coverage_threshold, 0)

build_sdist(d) == GetOr(d.sdist, TRUE)

build_wheel(d) == GetOr(d.wheel, TRUE)

publish_enabled(d) == GetOr(d.publish_enabled, TRUE)

docs_enabled(d) == GetOr(d.docs_enabled, TRUE)

docs_builder(d) == GetOr(d.docs_builder, "epythet")

docs_ignore_paths(d) == GetOr(d.docs_ignore_paths, <<"tests/", "scrap/", "examples/">>)

\* Python truthiness of an optional string: None and '' are both falsy
Truthy(name) == name.has /\ name.v # ""

\* CIConfig.__init__: the first truthy of the supplied name, the name under
\* [tool.wads.ci] and [project].name, and '' when [project] has no name
CIConfig(pyproject_data, name) ==
    [pyproject_data |-> pyproject_data,
     project_name |->
        IF Truthy(name) THEN name.v
        ELSE IF Truthy(pyproject_data.ci_project_name) THEN pyproject_data.ci_project_name.v
        ELSE GetOr(pyproject_data.project_name, "")]

\* CIConfig.from_file on a file that exists: no name is passed on
from_file(f) == CIConfig(f.v.data, None)

read_ci_config(f) == from_file(f)

\* deps.get(key, []) on the mapping form
PlatformList(m, key) == IF key \in DOMAIN m THEN m[key] ELSE <<>>

normalize_system_deps(d) ==
    LET deps == system_dependencies(d)
    IN  IF deps.kind = "list"
        THEN [ubuntu |-> deps.items, macos |-> <<>>, windows |-> <<>>]
        ELSE [ubuntu |-> PlatformList(deps.table, "ubuntu"),
              macos |-> PlatformList(deps.table, "macos"),
              windows |-> PlatformList(deps.table, "windows")]

----------------------------------------------------------------------------
(* CIConfig.generate_pre_test_steps *)

\* AppendInstall that takes only the first command of a list
AppendInstall_first_of_list(install_commands, install_cmd) ==
    IF install_cmd.kind = "str" THEN Append(install_commands, install_cmd.text)
    ELSE IF install_cmd.items = <<>> THEN install_commands
    ELSE Append(install_commands, install_cmd.items[1])

\* install_commands after install_cmd was handled (isinstance str / list)
AppendInstall(install_commands, install_cmd) ==
    IF install_cmd.kind = "str" THEN Append(install_commands, install_cmd.text)
    ELSE install_commands \o install_cmd.items

\* PreTestIteration without the "continue" after the invalid-DepURL warning
PreTestIteration_no_continue(acc, d, ops, platform) ==
    LET warned == IF ~validate_depurl(d)
                  THEN [acc EXCEPT !.warnings = Append(@, <<"invalid", d>>)]
                  ELSE acc
        simple_name == depurl_to_simple_name(d)
    IN  IF simple_name \in DOMAIN ops
        THEN
            LET install_section == GetOr(ops[simple_name].install, <<>>)
            IN  IF platform \in DOMAIN install_section
                THEN [warned EXCEPT !.install_commands =
                          AppendInstall(@, install_section[platform])]
                ELSE warned
        ELSE [warned EXCEPT !.warnings = Append(@, <<"no_ops", d>>)]

\* one iteration of "for depurl in all_depurls"
PreTestIteration(acc, d, ops, platform) ==
    IF ~validate_depurl(d)
    THEN [acc EXCEPT !.warnings = Append(@, <<"invalid", d>>)]
    ELSE
        LET simple_name == depurl_to_simple_name(d)
        IN  IF simple_name \in DOMAIN ops
            THEN
                LET install_section == GetOr(ops[simple_name].install, <<>>)
                IN  IF platform \in DOMAIN install_section
                    THEN [acc EXCEPT !.install_commands =
                              AppendInstall(@, install_section[platform])]
                    ELSE acc
            ELSE [acc EXCEPT !.warnings = Append(@, <<"no_ops", d>>)]

\* the loop "for depurl in all_depurls", from index i on
RECURSIVE PreTestLoop(_, _, _, _, _)
PreTestLoop(acc, all_depurls, i, ops, platform) ==
    IF i > Len(all_depurls) THEN acc
    ELSE PreTestLoop(PreTestIteration(acc, all_depurls[i], ops, platform),
                     all_depurls, i + 1, ops, platform)

\* LegacyInstall without the "if platform == 'linux'" test
LegacyInstall_any_platform(legacy_packages, platform) ==
    IF legacy_packages # <<>>
    THEN <<"sudo apt-get update",
           "sudo apt-get install -y " \o Join(legacy_packages, " ")>>
    ELSE <<>>

\* the legacy block: what it appends to install_commands
LegacyInstall(legacy_packages, platform) ==
    IF legacy_packages # <<>> /\ platform = "linux"
    THEN <<"sudo apt-get update",
           "sudo apt-get install -y " \o Join(legacy_packages, " ")>>
    ELSE <<>>

\* [f"          {cmd}" for cmd in cmds]
Indented(cmds) == [i \in 1..Len(cmds) |-> "          " \o cmds[i]]

\* a list without the later occurrences of its elements
RECURSIVE Deduplicated(_)
Deduplicated(cmds) ==
    IF cmds = <<>> THEN <<>>
    ELSE LET init == Deduplicated(SubSeq(cmds, 1, Len(cmds) - 1))
             x == cmds[Len(cmds)]
         IN  IF \E i \in 1..Len(init) : init[i] = x THEN init ELSE Append(init, x)

\* InstallStep that emits every command once
InstallStep_deduplicated(install_commands) ==
    IF install_commands # <<>>
    THEN <<"      - name: Install System Dependencies", "        run: |">>
         \o Indented(Deduplicated(install_commands))
    ELSE <<>>

\* InstallStep without the "if install_commands" test
InstallStep_always(install_commands) ==
    <<"      - name: Install System Dependencies", "        run: |">>
    \o Indented(install_commands)

\* the "Install System Dependencies" step
InstallStep(install_commands) ==
    IF install_commands # <<>>
    THEN <<"      - name: Install System Dependencies", "        run: |">>
         \o Indented(install_commands)
    ELSE <<>>

\* WithPreTestStep that puts the custom commands before the install step
WithPreTestStep_first(steps, pre_test) ==
    IF pre_test # <<>>
    THEN <<"      - name: Pre-test Setup", "        run: |">>
         \o Indented(pre_test)
         \o (IF steps # <<>> THEN <<"">> \o steps ELSE <<>>)
    ELSE steps

\* steps after the custom pre-test commands were added
WithPreTestStep(steps, pre_test) ==
    IF pre_test # <<>>
    THEN (IF steps # <<>> THEN Append(steps, "") ELSE steps)
         \o <<"      - name: Pre-test Setup", "        run: |">>
         \o Indented(pre_test)
    ELSE steps

generate_pre_test_steps(d, platform) ==
    LET external_deps == external_dependencies(d)
        all_depurls == external_deps.build \o external_deps.host \o external_deps.runtime
        resolved == PreTestLoop([install_commands |-> <<>>, warnings |-> <<>>],
                                all_depurls, 1, external_ops(d), platform)
        legacy_deps == normalize_system_deps(d)
        platform_key == IF platform = "linux" THEN "ubuntu" ELSE platform
        legacy_packages == IF platform_key \in DOMAIN legacy_deps
                           THEN legacy_deps[platform_key] ELSE <<>>
        install_commands == resolved.install_commands
                            \o LegacyInstall(legacy_packages, platform)
        steps == WithPreTestStep(InstallStep(install_commands), commands_pre_test(d))
    IN  [new_commands |-> resolved.install_commands,
         install_commands |-> install_commands,
         warnings |-> resolved.warnings
                      \o (IF legacy_packages # <<>> THEN <<<<"deprecated">>>> ELSE <<>>),
         steps |-> steps,
         text |-> IF steps # <<>> THEN Join(steps, "\n") ELSE ""]

----------------------------------------------------------------------------
(* CIConfig.generate_windows_validation_job *)

\* the template up to {system_deps_step}
WindowsTemplateHead ==
    "\n"
    \o "  windows-validation:\n"
    \o "    name: Windows Tests (Informational)\n"
    \o "    if: \"!contains(github.event.head_commit.message, '[skip ci]')\"\n"
    \o "    runs-on: windows-latest\n"
    \o "    continue-on-error: true  # Don't fail the entire workflow if Windows tests fail\n"
    \o "\n"
    \o "    steps:\n"
    \o "      - uses: actions/checkout@v4\n"
    \o "\n"
    \o "      - name: Set up Python 3.10\n"
    \o "        uses: actions/setup-python@v6\n"
    \o "        with:\n"
    \o "          python-version: \"3.10\"\n"

\* the template between {system_deps_step} and {exclude}
WindowsTemplateMiddle ==
    "\n"
    \o "      - name: Install Dependencies\n"
    \o "        uses: i2mint/wads/actions/install-deps@master\n"
    \o "        with:\n"
    \o "          dependency-files: pyproject.toml\n"
    \o "          extras: dev,test\n"
    \o "\n"
    \o "      - name: Run Windows Tests\n"
    \o "        uses: i2mint/wads/actions/windows-tests@master\n"
    \o "        with:\n"
    \o "          root-dir: ${{ env.PROJECT_NAME }}\n"
    \o "          exclude: "

\* WindowsIteration without the _validate_depurl test
WindowsIteration_no_validation(install_commands, d, ops) ==
    LET simple_name == depurl_to_simple_name(d)
    IN  IF simple_name \in DOMAIN ops
        THEN
            LET install_section == GetOr(ops[simple_name].install, <<>>)
            IN  IF "windows" \in DOMAIN install_section
                THEN AppendInstall(install_commands, install_section["windows"])
                ELSE install_commands
        ELSE install_commands

\* one iteration of "for depurl in all_depurls" of the Windows job
WindowsIteration(install_commands, d, ops) ==
    IF ~validate_depurl(d) THEN install_commands
    ELSE
        LET simple_name == depurl_to_simple_name(d)
        IN  IF simple_name \in DOMAIN ops
            THEN
                LET install_section == GetOr(ops[simple_name].install, <<>>)
                IN  IF "windows" \in DOMAIN install_section
                    THEN AppendInstall(install_commands, install_section["windows"])
                    ELSE install_commands
            ELSE install_commands

\* the loop "for depurl in all_depurls" of the Windows job, from index i on
RECURSIVE WindowsLoop(_, _, _, _)
WindowsLoop(install_commands, all_depurls, i, ops) ==
    IF i > Len(all_depurls) THEN install_commands
    ELSE WindowsLoop(WindowsIteration(install_commands, all_depurls[i], ops),
                     all_depurls, i + 1, ops)

\* the legacy block of the Windows job: what it appends to install_commands
WindowsLegacyInstall(windows_packages) ==
    IF windows_packages # <<>>
    THEN <<"choco install -y " \o Join(windows_packages, " ")>>
    ELSE <<>>

\* system_deps_step, built by += over install_commands
RECURSIVE SystemDepsLines(_, _)
SystemDepsLines(install_commands, i) ==
    IF i > Len(install_commands) THEN ""
    ELSE "          " \o install_commands[i] \o "\n"
         \o SystemDepsLines(install_commands, i + 1)

SystemDepsStep(install_commands) ==
    IF install_commands # <<>>
    THEN "      - name: Install System Dependencies\n"
         \o "        run: |\n"
         \o SystemDepsLines(install_commands, 1)
         \o "\n"
    ELSE ""

generate_windows_validation_job(d) ==
    IF ~test_on_windows(d)
    THEN [generated |-> FALSE, install_commands |-> <<>>, text |-> ""]
    ELSE
        LET external_deps == external_dependencies(d)
            all_depurls == external_deps.build \o external_deps.host
                           \o external_deps.runtime
            resolved == WindowsLoop(<<>>, all_depurls, 1, external_ops(d))
            windows_packages == normalize_system_deps(d).windows
            install_commands == resolved \o WindowsLegacyInstall(windows_packages)
        IN  [generated |-> TRUE,
             install_commands |-> install_commands,
             text |-> WindowsTemplateHead
                      \o SystemDepsStep(install_commands)
                      \o WindowsTemplateMiddle
                      \o Join(exclude_paths(d), ",")
                      \o "\n          pytest-args: "
                      \o Join(pytest_args(d), " ")
                      \o "\n"]

----------------------------------------------------------------------------
(* Inputs of the DepURL codec *)

\* characters the codec distinguishes, and one that it does not
TailChars == {"/", "@", "?", "#", "x"}

\* what an input starts with: the scheme and near misses of it
Prefixes == {<<>>, Scheme, <<"d", "e", "p">>, <<"e", "p", ":">>,
             <<"d", "e", "p", "/">>, <<"x", "d", "e", "p", ":">>}

CodecInputs ==
    {pre \o t : pre \in Prefixes,
                t \in UNION {SeqsOfLen(TailChars, n) : n \in 0..MaxTail}}

----------------------------------------------------------------------------
(* Operations *)

NoCall == [op |-> "none"]

\* no pyproject.toml on disk and the migration functions not called
NoMigration ==
    /\ file = None
    /\ bak = None
    /\ pc = "idle"
    /\ call = NoCall
    /\ analysis = None

\* generate_pre_test_steps that builds all_depurls with += on the
\* document's own build-requires list
GeneratePreTestSteps_aliasing(platform) ==
    LET result == generate_pre_test_steps(doc, platform)
    IN  /\ last' = [op |-> "pre_test_steps", platform |-> platform, result |-> result,
                    repeated |-> platform \in DOMAIN first /\ first[platform].has]
        /\ first' = IF platform \in DOMAIN first /\ ~first[platform].has
                    THEN [first EXCEPT ![platform] = Some(result)]
                    ELSE first
        /\ doc' = [doc EXCEPT !.build_requires =
                      IF @.has
                      THEN Some(@.v \o GetOr(doc.host_requires, <<>>)
                                   \o GetOr(doc.dependencies, <<>>))
                      ELSE @]
        /\ UNCHANGED <<doc0, depurl, valid, simple, file, bak, pc, call, analysis, package_name, normalized_name>>

\* config.generate_pre_test_steps(platform)
GeneratePreTestSteps(platform) ==
    LET result == generate_pre_test_steps(doc, platform)
    IN  /\ last' = [op |-> "pre_test_steps", platform |-> platform, result |-> result,
                    repeated |-> platform \in DOMAIN first /\ first[platform].has]
        /\ first' = IF platform \in DOMAIN first /\ ~first[platform].has
                    THEN [first EXCEPT ![platform] = Some(result)]
                    ELSE first
        /\ UNCHANGED <<doc, doc0, depurl, valid, simple, file, bak, pc, call, analysis, package_name, normalized_name>>

\* config.generate_windows_validation_job()
GenerateWindowsValidationJob ==
    /\ last' = [op |-> "windows_job", platform |-> "windows",
                result |-> generate_windows_validation_job(doc)]
    /\ UNCHANGED <<doc, doc0, first, depurl, valid, simple, file, bak, pc, call, analysis, package_name, normalized_name>>

\* _validate_depurl(depurl)
ValidateDepurl ==
    /\ ~valid.has
    /\ valid' = Some(validate_depurl(depurl))
    /\ UNCHANGED <<doc, doc0, first, last, depurl, simple, file, bak, pc, call, analysis, package_name, normalized_name>>

\* a CIConfig built over any of the documents
Init ==
    /\ doc \in Documents
    /\ doc0 = doc
    /\ first = <<>>
    /\ last = NoCall
    /\ depurl = <<>>
    /\ valid = None
    /\ simple = None
    /\ package_name = <<>>
    /\ normalized_name = None
    /\ NoMigration

Next ==
    \/ \E platform \in Platforms : GeneratePreTestSteps(platform)
    \/ GenerateWindowsValidationJob

Spec == Init /\ [][Next]_vars

\* documents that declare custom commands and a legacy list
RepeatDocuments ==
    {d \in Documents : /\ d.pre_test.has
                       /\ d.system_dependencies = Some(List(<<"ffmpeg", "a">>))
                       /\ d.test_on_windows = Some(TRUE)}

\* a CIConfig whose generate_pre_test_steps results are recorded
InitRepeat ==
    /\ doc \in RepeatDocuments
    /\ doc0 = doc
    /\ first = [p \in Platforms |-> None]
    /\ last = NoCall
    /\ depurl = <<>>
    /\ valid = None
    /\ simple = None
    /\ package_name = <<>>
    /\ normalized_name = None
    /\ NoMigration

NextRepeat == \E platform \in Platforms : GeneratePreTestSteps(platform)

SpecRepeat == InitRepeat /\ [][NextRepeat]_vars

\* the codec applied to any of the inputs
InitCodec ==
    /\ doc = EmptyDocument
    /\ doc0 = doc
    /\ first = <<>>
    /\ last = NoCall
    /\ depurl \in CodecInputs
    /\ valid = None
    /\ simple = None
    /\ package_name = <<>>
    /\ normalized_name = None
    /\ NoMigration

NextCodec == ValidateDepurl

SpecCodec == InitCodec /\ [][NextCodec]_vars

----------------------------------------------------------------------------
(* What the documentation says the generators produce *)

\* the last call was generate_pre_test_steps
PreTestCalled == last.op = "pre_test_steps"

\* the last call was generate_windows_validation_job
WindowsJobCalled == last.op = "windows_job"

\* the required DepURLs in role order build, host, runtime
RequiredDepURLs(d) ==
    GetOr(d.build_requires, <<>>) \o GetOr(d.host_requires, <<>>)
        \o GetOr(d.dependencies, <<>>)

\* the DepURL is valid, has an operational entry, and the entry has an
\* install value for the platform
Resolvable(d, u, platform) ==
    /\ validate_depurl(u)
    /\ depurl_to_simple_name(u) \in DOMAIN d.ops
    /\ d.ops[depurl_to_simple_name(u)].install.has
    /\ platform \in DOMAIN d.ops[depurl_to_simple_name(u)].install.v

\* an install value as commands: one for a string, the elements for a list
AsCommands(value) == IF value.kind = "str" THEN <<value.text>> ELSE value.items

\* the operational install value of a resolvable DepURL for the platform
OperationalInstall(d, u, platform) ==
    AsCommands(d.ops[depurl_to_simple_name(u)].install.v[platform])

\* the concatenation of a sequence of sequences
RECURSIVE Flatten(_)
Flatten(ss) == IF ss = <<>> THEN <<>> ELSE Head(ss) \o Flatten(Tail(ss))

\* the sum of a sequence of numbers
RECURSIVE Sum(_)
Sum(ns) == IF ns = <<>> THEN 0 ELSE Head(ns) + Sum(Tail(ns))

\* how often x occurs in the sequence
Occurrences(x, seq) == Cardinality({i \in 1..Len(seq) : seq[i] = x})

\* the elements of a sequence
Range(seq) == {seq[i] : i \in 1..Len(seq)}

\* package names separated by single spaces
RECURSIVE SpaceSeparated(_)
SpaceSeparated(names) ==
    IF Len(names) = 1 THEN Head(names)
    ELSE Head(names) \o " " \o SpaceSeparated(Tail(names))

\* what each required DepURL contributes for the platform, in role order
Contributions(d, platform) ==
    LET all == RequiredDepURLs(d)
    IN  [i \in 1..Len(all) |->
            IF Resolvable(d, all[i], platform)
            THEN OperationalInstall(d, all[i], platform)
            ELSE <<>>]

\* the packages the legacy declaration names for Ubuntu
UbuntuPackages(d) ==
    IF ~d.system_dependencies.has THEN <<>>
    ELSE IF d.system_dependencies.v.kind = "list" THEN d.system_dependencies.v.items
    ELSE IF "ubuntu" \in DOMAIN d.system_dependencies.v.table
         THEN d.system_dependencies.v.table["ubuntu"]
    ELSE <<>>

\* the packages the legacy declaration names for Windows
WindowsPackages(d) ==
    IF ~d.system_dependencies.has THEN <<>>
    ELSE IF d.system_dependencies.v.kind = "list" THEN <<>>
    ELSE IF "windows" \in DOMAIN d.system_dependencies.v.table
         THEN d.system_dependencies.v.table["windows"]
    ELSE <<>>

\* the two apt-get commands for the legacy packages
AptGetCommands(packages) ==
    <<"sudo apt-get update", "sudo apt-get install -y " \o SpaceSeparated(packages)>>

----------------------------------------------------------------------------
(* Claims about generate_pre_test_steps *)

\* C1: the new-format install commands are the concatenation, over the
\* required DepURLs in role order build, host, runtime and in declaration
\* order within a role, of each DepURL's operational install value for the
\* platform; a string gives one command, a list gives its elements in order.
C1_NewFormatIsConcatenation ==
    PreTestCalled =>
        last.result.new_commands = Flatten(Contributions(doc, last.platform))

\* C1 witness: two DepURLs of different roles contributed, one of them a list
C1_Witness ==
    /\ PreTestCalled
    /\ doc.host_requires.has
    /\ doc.dependencies.has
    /\ LET c == Contributions(doc, last.platform)
       IN  /\ Len(c) = 2
           /\ Len(c[1]) + Len(c[2]) = 3
           /\ c[1] # <<>>
           /\ c[2] # <<>>
    /\ Len(last.result.new_commands) = 3

\* C2: an unresolvable DepURL (invalid, no operational entry, or no install
\* value for the platform) contributes no command and stops nothing: the
\* commands of all resolvable DepURLs are in the output, in order.
C2_UnresolvableIsSkipped ==
    PreTestCalled =>
        LET all == RequiredDepURLs(doc)
            resolvable == SelectSeq(all, LAMBDA u : Resolvable(doc, u, last.platform))
        IN  /\ last.result.new_commands =
                  Flatten([i \in 1..Len(resolvable) |->
                              OperationalInstall(doc, resolvable[i], last.platform)])
            /\ Len(last.result.warnings) >=
                  Cardinality({i \in 1..Len(all) : ~validate_depurl(all[i])})

\* C2 witness: an invalid DepURL was declared before a resolvable one
C2_Witness ==
    /\ PreTestCalled
    /\ LET all == RequiredDepURLs(doc)
       IN  /\ Len(all) = 2
           /\ ~validate_depurl(all[1])
           /\ Resolvable(doc, all[2], last.platform)
    /\ last.result.new_commands # <<>>

\* C3: legacy packages P for Ubuntu (flat list, or 'ubuntu' entry of a mapping)
\* contribute exactly 'sudo apt-get update' and 'sudo apt-get install -y P'
\* on platform 'linux', and nothing on any other platform.
C3_LegacyOnlyOnLinux ==
    PreTestCalled =>
        last.result.install_commands =
            last.result.new_commands
            \o (IF last.platform = "linux" /\ UbuntuPackages(doc) # <<>>
                THEN AptGetCommands(UbuntuPackages(doc))
                ELSE <<>>)

\* C3 witness: a linux call on a document with two legacy packages
C3_Witness ==
    /\ PreTestCalled
    /\ last.platform = "linux"
    /\ Len(UbuntuPackages(doc)) = 2
    /\ Len(last.result.install_commands) = Len(last.result.new_commands) + 2

\* C4: with new-format DepURLs, legacy packages and custom pre_test commands
\* together, the linux output holds all three groups: the new-format
\* commands, then the apt-get commands, then the custom commands.
C4_ThreeGroupsInOrder ==
    (/\ PreTestCalled
     /\ last.platform = "linux"
     /\ UbuntuPackages(doc) # <<>>
     /\ GetOr(doc.pre_test, <<>>) # <<>>)
    =>
        last.result.steps =
            <<"      - name: Install System Dependencies", "        run: |">>
            \o [i \in 1..Len(last.result.new_commands) |->
                    "          " \o last.result.new_commands[i]]
            \o <<"          sudo apt-get update",
                 "          sudo apt-get install -y " \o SpaceSeparated(UbuntuPackages(doc))>>
            \o <<"", "      - name: Pre-test Setup", "        run: |">>
            \o [i \in 1..Len(doc.pre_test.v) |-> "          " \o doc.pre_test.v[i]]

\* C4 witness: all three groups are non-empty in a linux output
C4_Witness ==
    /\ PreTestCalled
    /\ last.platform = "linux"
    /\ last.result.new_commands # <<>>
    /\ UbuntuPackages(doc) # <<>>
    /\ doc.pre_test.has
    /\ Len(last.result.steps) =
          2 + Len(last.result.new_commands) + 2 + 3 + Len(doc.pre_test.v)

\* the command lines of the 'Install System Dependencies' step
InstallStepLines(result) ==
    LET steps == result.steps
        blanks == {i \in 1..Len(steps) : steps[i] = ""}
        end == IF blanks = {} THEN Len(steps)
               ELSE (CHOOSE i \in blanks : \A j \in blanks : i <= j) - 1
    IN  IF steps = <<>> \/ steps[1] # "      - name: Install System Dependencies"
        THEN <<>>
        ELSE SubSeq(steps, 3, end)

\* C5 as stated: no command occurs more than once in the install step.
C5_NoCommandTwice ==
    PreTestCalled =>
        \A i, j \in 1..Len(InstallStepLines(last.result)) :
            i # j => InstallStepLines(last.result)[i] # InstallStepLines(last.result)[j]

\* C5 amended: the install step is not deduplicated; every command occurs in
\* it exactly as often as the DepURLs' install values and the legacy
\* commands contribute it.
C5_EveryContributionKept ==
    PreTestCalled =>
        LET c == Contributions(doc, last.platform)
            legacy == IF last.platform = "linux" /\ UbuntuPackages(doc) # <<>>
                      THEN AptGetCommands(UbuntuPackages(doc)) ELSE <<>>
            lines == InstallStepLines(last.result)
        IN  /\ Len(lines) = Sum([i \in 1..Len(c) |-> Len(c[i])]) + Len(legacy)
            /\ \A cmd \in UNION {Range(c[i]) : i \in 1..Len(c)} \cup Range(legacy) :
                  Occurrences("          " \o cmd, lines) =
                      Sum([i \in 1..Len(c) |-> Occurrences(cmd, c[i])])
                      + Occurrences(cmd, legacy)

\* C5 witness: a command contributed twice is in the step twice
C5_Witness ==
    /\ PreTestCalled
    /\ \E i, j \in 1..Len(InstallStepLines(last.result)) :
          /\ i < j
          /\ InstallStepLines(last.result)[i] = InstallStepLines(last.result)[j]

C7_EmptyIffNothingToRun ==
    PreTestCalled =>
        /\ (last.result.text = "") <=>
              (last.result.install_commands = <<>> /\ ~doc.pre_test.has)
        /\ doc = EmptyDocument => last.result.text = ""

\* C7 witness: DepURLs are declared, none gives a command, the result is empty
C7_Witness ==
    /\ PreTestCalled
    /\ RequiredDepURLs(doc) # <<>>
    /\ doc.ops # <<>>
    /\ ~doc.pre_test.has
    /\ last.result.text = ""

----------------------------------------------------------------------------
(* Claims about generate_windows_validation_job *)

C9_WindowsJobGate ==
    WindowsJobCalled =>
        /\ doc.test_on_windows = Some(FALSE) => last.result.text = ""
        /\ doc.test_on_windows \in {None, Some(TRUE)} =>
              /\ last.result.generated
              /\ last.result.text # ""

\* C9 witness: test_on_windows is false, Windows commands are declared in
\* both formats, and the job is empty
C9_Witness ==
    /\ WindowsJobCalled
    /\ doc.test_on_windows = Some(FALSE)
    /\ WindowsPackages(doc) # <<>>
    /\ \E i \in 1..Len(RequiredDepURLs(doc)) :
          Resolvable(doc, RequiredDepURLs(doc)[i], "windows")
    /\ last.result.text = ""

----------------------------------------------------------------------------
(* Claims about the DepURL codec *)

\* the characters that start a version, a query or a fragment
SuffixStarts == {"@", "?", "#"}

\* the text after the first four characters, cut at the first '@', '?' or '#'
PathOf(s) ==
    LET after == [i \in 1..(Len(s) - 4) |-> s[i + 4]]
        cuts == {i \in 1..Len(after) : after[i] \in SuffixStarts}
        end == IF cuts = {} THEN Len(after)
               ELSE (CHOOSE i \in cuts : \A j \in cuts : i <= j) - 1
    IN  [i \in 1..end |-> after[i]]

\* splitting on '/' gives two or more segments, none of them empty
TwoOrMoreNonEmptySegments(path) ==
    /\ \E i \in 1..Len(path) : path[i] = "/"
    /\ path[1] # "/"
    /\ path[Len(path)] # "/"
    /\ \A i \in 1..(Len(path) - 1) : ~(path[i] = "/" /\ path[i + 1] = "/")

\* C10: is_valid(s) is true exactly when s starts with 'dep:' and the text
\* after the prefix, cut at the first '@', '?' or '#', splits on '/' into two
\* or more segments that are all non-empty.
C10_ValidIffSchemeAndSegments ==
    valid.has =>
        (valid.v <=>
            /\ Len(depurl) >= 4
            /\ depurl[1] = "d" /\ depurl[2] = "e" /\ depurl[3] = "p" /\ depurl[4] = ":"
            /\ TwoOrMoreNonEmptySegments(PathOf(depurl)))

\* C10 witness: a string with a suffix holding a '/' was accepted
C10_Witness ==
    /\ valid.has
    /\ valid.v
    /\ Len(depurl) = 9
    /\ depurl[9] = "/"
    /\ depurl[8] \in SuffixStarts

----------------------------------------------------------------------------
(* Simple names of DepURLs *)

\* what an argument of _depurl_to_simple_name is made of: the characters the
\* codec distinguishes, one that it does not, and the scheme literal
NameChunks == {<<"/">>, <<"@">>, <<"?">>, <<"#">>, <<"x">>, Scheme}

NameInputs ==
    {Flatten(chunks) : chunks \in UNION {SeqsOfLen(NameChunks, n) : n \in 0..MaxChunks}}

\* _depurl_to_simple_name(depurl)
ToSimpleName ==
    /\ ~simple.has
    /\ simple' = Some(depurl_to_simple_name(depurl))
    /\ UNCHANGED <<doc, doc0, first, last, depurl, valid, file, bak, pc, call, analysis, package_name, normalized_name>>

\* both codec functions applied to any of the arguments
InitSimpleName ==
    /\ doc = EmptyDocument
    /\ doc0 = doc
    /\ first = <<>>
    /\ last = NoCall
    /\ depurl \in NameInputs
    /\ valid = None
    /\ simple = None
    /\ package_name = <<>>
    /\ normalized_name = None
    /\ NoMigration

NextSimpleName ==
    \/ ValidateDepurl
    \/ ToSimpleName

SpecSimpleName == InitSimpleName /\ [][NextSimpleName]_vars

\* C11: for every string that is_valid accepts, to_simple_name returns the
\* second path segment when is_valid sees two segments, and the second and
\* third segments joined by '-' when it sees three.
C11_SimpleNameFromValidSegments ==
    (valid.has /\ valid.v /\ simple.has) =>
        LET segments == Split(PathOf(depurl), "/")
        IN  /\ Len(segments) = 2 => simple.v = segments[2]
            /\ Len(segments) = 3 => simple.v = segments[2] \o <<"-">> \o segments[3]

\* the argument up to, not including, its first '@', '?' or '#'
BeforeSuffix(s) ==
    LET cuts == {i \in 1..Len(s) : s[i] \in SuffixStarts}
        end == IF cuts = {} THEN Len(s)
               ELSE (CHOOSE i \in cuts : \A j \in cuts : i <= j) - 1
    IN  [i \in 1..end |-> s[i]]

\* C12: a suffix never affects the name: when the argument is d followed by
\* a suffix starting with '@', '?' or '#', and d holds none of the three,
\* to_simple_name returns what it returns for d alone.
C12_SuffixNeverAffectsName ==
    simple.has => simple.v = depurl_to_simple_name(BeforeSuffix(depurl))

\* C12 witness: a name was computed for a DepURL whose suffix holds a '/'
C12_Witness ==
    /\ simple.has
    /\ simple.v # <<>>
    /\ StartsWith(depurl, Scheme)
    /\ Len(BeforeSuffix(depurl)) < Len(depurl)
    /\ \E i \in (Len(BeforeSuffix(depurl)) + 2)..Len(depurl) : depurl[i] = "/"

----------------------------------------------------------------------------
(* Tables of the migration *)

\* the characters of the package names that documents declare
CharsOf ==
    "ffmpeg" :> <<"f", "f", "m", "p", "e", "g">>
    @@ "foo" :> <<"f", "o", "o">>
    @@ "gcc" :> <<"g", "c", "c">>
    @@ "compiler-c" :> <<"c", "o", "m", "p", "i", "l", "e", "r", "-", "c">>
    @@ "libfoo2-dev" :> <<"l", "i", "b", "f", "o", "o", "2", "-", "d", "e", "v">>
    @@ "unixodbc-dev" :> <<"u", "n", "i", "x", "o", "d", "b", "c", "-", "d", "e", "v">>

\* the literal 'dep:generic/'
Generic == <<"d", "e", "p", ":", "g", "e", "n", "e", "r", "i", "c", "/">>

\* the literal 'dep:virtual/compiler/'
VirtualCompiler == <<"d", "e", "p", ":", "v", "i", "r", "t", "u", "a", "l", "/", "c", "o", "m", "p", "i", "l", "e", "r", "/">>

COMMON_PACKAGE_DEPURLS ==
    <<"f", "f", "m", "p", "e", "g">> :> Generic \o <<"f", "f", "m", "p", "e", "g">>
    @@ <<"l", "i", "b", "s", "n", "d", "f", "i", "l", "e">> :> Generic \o <<"l", "i", "b", "s", "n", "d", "f", "i", "l", "e">>
    @@ <<"l", "i", "b", "s", "n", "d", "f", "i", "l", "e", "1">> :> Generic \o <<"l", "i", "b", "s", "n", "d", "f", "i", "l", "e">>
    @@ <<"p", "o", "r", "t", "a", "u", "d", "i", "o">> :> Generic \o <<"p", "o", "r", "t", "a", "u", "d", "i", "o">>
    @@ <<"p", "o", "r", "t", "a", "u", "d", "i", "o", "1", "9", "-", "d", "e", "v">> :> Generic \o <<"p", "o", "r", "t", "a", "u", "d", "i", "o">>
    @@ <<"l", "i", "b", "p", "o", "r", "t", "a", "u", "d", "i", "o", "2">> :> Generic \o <<"p", "o", "r", "t", "a", "u", "d", "i", "o">>
    @@ <<"g", "i", "t">> :> Generic \o <<"g", "i", "t">>
    @@ <<"m", "a", "k", "e">> :> Generic \o <<"m", "a", "k", "e">>
    @@ <<"c", "m", "a", "k", "e">> :> Generic \o <<"c", "m", "a", "k", "e">>
    @@ <<"g", "c", "c">> :> VirtualCompiler \o <<"c">>
    @@ <<"g", "+", "+">> :> VirtualCompiler \o <<"c", "p", "p">>
    @@ <<"c", "l", "a", "n", "g">> :> VirtualCompiler \o <<"c">>
    @@ <<"u", "n", "i", "x", "o", "d", "b", "c">> :> Generic \o <<"u", "n", "i", "x", "o", "d", "b", "c">>
    @@ <<"u", "n", "i", "x", "o", "d", "b", "c", "-", "d", "e", "v">> :> Generic \o <<"u", "n", "i", "x", "o", "d", "b", "c">>
    @@ <<"m", "s", "o", "d", "b", "c", "s", "q", "l", "1", "8">> :> Generic \o <<"m", "s", "o", "d", "b", "c", "s", "q", "l", "1", "8">>
    @@ <<"p", "o", "s", "t", "g", "r", "e", "s", "q", "l">> :> Generic \o <<"p", "o", "s", "t", "g", "r", "e", "s", "q", "l">>
    @@ <<"l", "i", "b", "p", "q", "-", "d", "e", "v">> :> Generic \o <<"p", "o", "s", "t", "g", "r", "e", "s", "q", "l">>
    @@ <<"m", "y", "s", "q", "l">> :> Generic \o <<"m", "y", "s", "q", "l">>
    @@ <<"l", "i", "b", "m", "y", "s", "q", "l", "c", "l", "i", "e", "n", "t", "-", "d", "e", "v">> :> Generic \o <<"m", "y", "s", "q", "l">>
    @@ <<"l", "i", "b", "f", "f", "i">> :> Generic \o <<"l", "i", "b", "f", "f", "i">>
    @@ <<"l", "i", "b", "f", "f", "i", "-", "d", "e", "v">> :> Generic \o <<"l", "i", "b", "f", "f", "i">>
    @@ <<"l", "i", "b", "s", "s", "l">> :> Generic \o <<"o", "p", "e", "n", "s", "s", "l">>
    @@ <<"l", "i", "b", "s", "s", "l", "-", "d", "e", "v">> :> Generic \o <<"o", "p", "e", "n", "s", "s", "l">>
    @@ <<"o", "p", "e", "n", "s", "s", "l">> :> Generic \o <<"o", "p", "e", "n", "s", "s", "l">>
    @@ <<"z", "l", "i", "b">> :> Generic \o <<"z", "l", "i", "b">>
    @@ <<"z", "l", "i", "b", "1", "g", "-", "d", "e", "v">> :> Generic \o <<"z", "l", "i", "b">>
    @@ <<"c", "u", "r", "l">> :> Generic \o <<"c", "u", "r", "l">>
    @@ <<"w", "g", "e", "t">> :> Generic \o <<"w", "g", "e", "t">>
    @@ <<"d", "o", "c", "k", "e", "r">> :> Generic \o <<"d", "o", "c", "k", "e", "r">>

DEFAULT_INSTALL_COMMANDS ==
    <<"f", "f", "m", "p", "e", "g">> :> (
        "linux" :> Str("sudo apt-get install -y ffmpeg")
        @@ "macos" :> Str("brew install ffmpeg")
        @@ "windows" :> Str("choco install ffmpeg"))
    @@ <<"l", "i", "b", "s", "n", "d", "f", "i", "l", "e">> :> (
        "linux" :> Str("sudo apt-get install -y libsndfile1")
        @@ "macos" :> Str("brew install libsndfile"))
    @@ <<"p", "o", "r", "t", "a", "u", "d", "i", "o">> :> (
        "linux" :> Str("sudo apt-get install -y libportaudio2 portaudio19-dev")
        @@ "macos" :> Str("brew install portaudio")
        @@ "windows" :> Str("choco install portaudio"))
    @@ <<"g", "i", "t">> :> (
        "linux" :> Str("sudo apt-get install -y git")
        @@ "macos" :> Str("brew install git")
        @@ "windows" :> Str("choco install git"))
    @@ <<"u", "n", "i", "x", "o", "d", "b", "c">> :> (
        "linux" :> List(<<"sudo apt-get update", "sudo apt-get install -y unixodbc unixodbc-dev">>)
        @@ "macos" :> Str("brew install unixodbc"))
    @@ <<"p", "o", "s", "t", "g", "r", "e", "s", "q", "l">> :> (
        "linux" :> Str("sudo apt-get install -y postgresql libpq-dev")
        @@ "macos" :> Str("brew install postgresql")
        @@ "windows" :> Str("choco install postgresql"))
    @@ <<"m", "y", "s", "q", "l">> :> (
        "linux" :> Str("sudo apt-get install -y mysql-server libmysqlclient-dev")
        @@ "macos" :> Str("brew install mysql")
        @@ "windows" :> Str("choco install mysql"))
    @@ <<"o", "p", "e", "n", "s", "s", "l">> :> (
        "linux" :> Str("sudo apt-get install -y libssl-dev")
        @@ "macos" :> Str("brew install openssl")
        @@ "windows" :> Str("choco install openssl"))

PACKAGE_METADATA ==
    <<"f", "f", "m", "p", "e", "g">> :>
        [rationale |-> "Multimedia framework for audio and video processing",
         url |-> "https://ffmpeg.org/"]
    @@ <<"l", "i", "b", "s", "n", "d", "f", "i", "l", "e">> :>
        [rationale |-> "Library for reading and writing audio files",
         url |-> "http://www.mega-nerd.com/libsndfile/"]
    @@ <<"p", "o", "r", "t", "a", "u", "d", "i", "o">> :>
        [rationale |-> "Cross-platform audio I/O library",
         url |-> "http://www.portaudio.com/"]
    @@ <<"g", "i", "t">> :>
        [rationale |-> "Distributed version control system",
         url |-> "https://git-scm.com/"]
    @@ <<"u", "n", "i", "x", "o", "d", "b", "c">> :>
        [rationale |-> "ODBC driver interface for database connectivity",
         url |-> "https://www.unixodbc.org/"]
    @@ <<"p", "o", "s", "t", "g", "r", "e", "s", "q", "l">> :>
        [rationale |-> "PostgreSQL database and client libraries",
         url |-> "https://www.postgresql.org/"]
    @@ <<"m", "y", "s", "q", "l">> :>
        [rationale |-> "MySQL database and client libraries",
         url |-> "https://www.mysql.com/"]
    @@ <<"o", "p", "e", "n", "s", "s", "l">> :>
        [rationale |-> "Cryptography and SSL/TLS toolkit",
         url |-> "https://www.openssl.org/"]

----------------------------------------------------------------------------
(* Package names to DepURLs *)

\* str.lower() on the ASCII letters
LowerCase ==
    "A" :> "a" @@ "B" :> "b" @@ "C" :> "c" @@ "D" :> "d" @@ "E" :> "e" @@ "F" :> "f"
    @@ "G" :> "g" @@ "H" :> "h" @@ "I" :> "i" @@ "J" :> "j" @@ "K" :> "k" @@ "L" :> "l"
    @@ "M" :> "m" @@ "N" :> "n" @@ "O" :> "o" @@ "P" :> "p" @@ "Q" :> "q" @@ "R" :> "r"
    @@ "S" :> "s" @@ "T" :> "t" @@ "U" :> "u" @@ "V" :> "v" @@ "W" :> "w" @@ "X" :> "x"
    @@ "Y" :> "y" @@ "Z" :> "z"

Lower(s) == [i \in 1..Len(s) |-> IF s[i] \in DOMAIN LowerCase THEN LowerCase[s[i]] ELSE s[i]]

\* the whitespace characters package names are written with
Whitespace == {" ", "\t", "\n"}

\* str.strip()
RECURSIVE Strip(_)
Strip(s) ==
    IF s = <<>> THEN <<>>
    ELSE IF Head(s) \in Whitespace THEN Strip(Tail(s))
    ELSE IF s[Len(s)] \in Whitespace THEN Strip(SubSeq(s, 1, Len(s) - 1))
    ELSE s

\* s.endswith(suffix)
EndsWith(s, suffix) ==
    /\ Len(s) >= Len(suffix)
    /\ SubSeq(s, Len(s) - Len(suffix) + 1, Len(s)) = suffix

Digits == {"0", "1", "2", "3", "4", "5", "6", "7", "8", "9"}

\* re.sub(r'-dev$', '', name)
WithoutDevSuffix(name) ==
    IF EndsWith(name, <<"-", "d", "e", "v">>)
    THEN SubSeq(name, 1, Len(name) - 4)
    ELSE name

\* re.sub(r'\d+$', '', name)
RECURSIVE WithoutTrailingDigits(_)
WithoutTrailingDigits(name) ==
    IF name # <<>> /\ name[Len(name)] \in Digits
    THEN WithoutTrailingDigits(SubSeq(name, 1, Len(name) - 1))
    ELSE name

\* re.sub(r'lib(.+)', r'\1', name): the leftmost 'lib' that is followed by at
\* least one character is dropped; the match runs to the end of the name
WithoutLib(name) ==
    LET lib == <<"l", "i", "b">>
        starts == {i \in 1..(Len(name) - 3) : SubSeq(name, i, i + 2) = lib}
    IN  IF starts = {} THEN name
        ELSE LET i == CHOOSE j \in starts : \A k \in starts : j <= k
             IN  SubSeq(name, 1, i - 1) \o SubSeq(name, i + 3, Len(name))

normalize_package_name(package) ==
    WithoutLib(WithoutTrailingDigits(WithoutDevSuffix(Strip(Lower(package)))))

guess_depurl_for_package(package) ==
    LET package_lower == Strip(Lower(package))
        normalized == normalize_package_name(package)
    IN  IF package_lower \in DOMAIN COMMON_PACKAGE_DEPURLS
        THEN COMMON_PACKAGE_DEPURLS[package_lower]
        ELSE IF normalized \in DOMAIN COMMON_PACKAGE_DEPURLS
        THEN COMMON_PACKAGE_DEPURLS[normalized]
        ELSE Generic \o normalized

----------------------------------------------------------------------------
(* The pyproject.toml files that are migrated *)

dFfmpeg == Generic \o CharsOf["ffmpeg"]

\* [tool.wads.ci.testing.system_dependencies] of the files
LegacyDeclarations == {
    None,
    Some(List(<<>>)),
    Some(List(<<"ffmpeg", "foo">>)),
    Some(List(<<"foo", "unixodbc-dev", "libfoo2-dev">>)),
    Some(List(<<"gcc", "compiler-c">>)),
    Some(Dict("ubuntu" :> <<>>)),
    Some(Dict("ubuntu" :> <<"ffmpeg", "gcc">> @@ "macos" :> <<"ffmpeg">>)) }

\* the three required lists of [external] of the files
RequiredDeclarations == {
    [build_requires |-> None, host_requires |-> None, dependencies |-> None],
    [build_requires |-> None, host_requires |-> None, dependencies |-> Some(<<>>)],
    [build_requires |-> None, host_requires |-> None, dependencies |-> Some(<<dFfmpeg>>)],
    [build_requires |-> None, host_requires |-> Some(<<dCX>>), dependencies |-> None] }

\* [external.optional-dependencies] and [external.dependency-groups] of the files
OtherDeclarations == {
    [optional_dependencies |-> None, dependency_groups |-> None],
    [optional_dependencies |-> Some("audio" :> <<dFfmpeg>>), dependency_groups |-> None],
    [optional_dependencies |-> None, dependency_groups |-> Some("dev" :> <<dCX>>)] }

\* [tool.wads.external.ops] of the files: nothing, or a hand-written ffmpeg entry
MigrationOpsTables == {
    <<>>,
    CharsOf["ffmpeg"] :> [canonical_id |-> dFfmpeg,
                          install |-> Some("linux" :> Str("sudo snap install ffmpeg"))] }

\* [tool.wads.ci.env.install] of the files
EnvInstalls == {None, Some("linux" :> <<"sudo apt-get install -y ffmpeg">>)}

MigrationDocuments ==
    {[project_name |-> Some("test-project"),
      build_requires |-> r.build_requires,
      host_requires |-> r.host_requires,
      dependencies |-> r.dependencies,
      ops |-> o,
      system_dependencies |-> sd,
      pre_test |-> None,
      test_on_windows |-> None,
      exclude_paths |-> None,
      pytest_args |-> None,
      optional_dependencies |-> x.optional_dependencies,
      dependency_groups |-> x.dependency_groups,
      env_install |-> e] @@ OtherSettingsAbsent :
        r \in RequiredDeclarations, x \in OtherDeclarations, o \in MigrationOpsTables,
        sd \in LegacyDeclarations, e \in EnvInstalls}

\* a complete TOML file: the document it parses to, and who wrote its text
Whole(d, writer) == [state |-> "whole", data |-> d, text |-> writer]

\* a file just opened with mode 'wb'
Truncated == [state |-> "truncated"]

\* a file holding the beginning of what was being written to it
Partial == [state |-> "partial"]

----------------------------------------------------------------------------
(* analyze_migration_needed *)

\* bool(x) for a list that may be absent
NonEmptyList(o) == o.has /\ o.v # <<>>

\* bool(system_deps) for a list or a mapping
NonEmptyValue(value) ==
    IF value.kind = "list" THEN value.items # <<>> ELSE DOMAIN value.table # {}

\* list(set(xs)): the elements of S in an order the code does not determine
Orderings(S) ==
    {f \in [1..Cardinality(S) -> S] : \A i, j \in DOMAIN f : i # j => f[i] # f[j]}

\* the values legacy_packages can take
LegacyPackages(system_deps) ==
    IF system_deps.kind = "list" THEN {system_deps.items}
    ELSE Orderings(UNION {Range(system_deps.table[p]) : p \in DOMAIN system_deps.table})

\* can_auto_migrate without the test of has_external_section
CanAutoMigrate_ignoring_external(has_legacy_system_deps, has_external_section, legacy_packages) ==
    /\ has_legacy_system_deps
    /\ \A i \in 1..Len(legacy_packages) :
           guess_depurl_for_package(CharsOf[legacy_packages[i]]) # <<>>

CanAutoMigrate(has_legacy_system_deps, has_external_section, legacy_packages) ==
    /\ has_legacy_system_deps
    /\ ~has_external_section
    /\ \A i \in 1..Len(legacy_packages) :
           guess_depurl_for_package(CharsOf[legacy_packages[i]]) # <<>>

\* the recommendation for a document in the current format (its leading
\* check mark is left out)
AlreadyModern == "Already using PEP 725 format"

Recommendations(has_legacy_system_deps, has_legacy_env_install, has_external_section, has_external_ops, current_depurls) ==
    LET recommendations ==
            (IF has_legacy_system_deps /\ ~has_external_section
             THEN <<"Migrate [tool.wads.ci.testing.system_dependencies] to [external] with DepURLs">>
             ELSE <<>>)
            \o (IF has_external_section /\ ~has_external_ops /\ current_depurls # <<>>
                THEN <<"Add [tool.wads.external.ops] sections for operational metadata">>
                ELSE <<>>)
            \o (IF has_legacy_env_install
                THEN <<"Migrate [tool.wads.ci.env.install] commands to [tool.wads.external.ops]">>
                ELSE <<>>)
    IN  IF recommendations # <<>> THEN recommendations
        ELSE IF has_external_section /\ has_external_ops
        THEN <<AlreadyModern>>
        ELSE <<"No external dependencies declared">>

\* the MigrationAnalysis of a parsed document, for one value of legacy_packages
Analysis(d, legacy_packages) ==
    LET system_deps == system_dependencies(d)
        has_legacy_system_deps == NonEmptyValue(system_deps)
        has_legacy_env_install == d.env_install.has /\ DOMAIN d.env_install.v # {}
        has_external_section ==
            \/ NonEmptyList(d.build_requires)
            \/ NonEmptyList(d.host_requires)
            \/ NonEmptyList(d.dependencies)
        has_external_ops == DOMAIN d.ops # {}
        current_depurls ==
            IF has_external_section
            THEN GetOr(d.build_requires, <<>>) \o GetOr(d.host_requires, <<>>)
                     \o GetOr(d.dependencies, <<>>)
            ELSE <<>>
    IN  [has_legacy_system_deps |-> has_legacy_system_deps,
         has_legacy_env_install |-> has_legacy_env_install,
         has_external_section |-> has_external_section,
         has_external_ops |-> has_external_ops,
         legacy_packages |-> legacy_packages,
         legacy_platform_specific |->
             IF system_deps.kind = "list" THEN "ubuntu" :> system_deps.items
             ELSE system_deps.table,
         current_depurls |-> current_depurls,
         recommendations |->
             Recommendations(has_legacy_system_deps, has_legacy_env_install,
                             has_external_section, has_external_ops, current_depurls),
         can_auto_migrate |->
             CanAutoMigrate(has_legacy_system_deps, has_external_section, legacy_packages)]

\* what analyze_migration_needed can return for the file at pyproject_path
analyze_migration_needed(f) ==
    IF ~f.has
    THEN {[has_legacy_system_deps |-> FALSE,
           has_legacy_env_install |-> FALSE,
           has_external_section |-> FALSE,
           has_external_ops |-> FALSE,
           legacy_packages |-> <<>>,
           legacy_platform_specific |-> <<>>,
           current_depurls |-> <<>>,
           recommendations |-> <<"No pyproject.toml found">>,
           can_auto_migrate |-> FALSE]}
    ELSE {Analysis(f.v.data, legacy_packages) :
              legacy_packages \in LegacyPackages(system_dependencies(f.v.data))}

----------------------------------------------------------------------------
(* generate_migration_toml and the in-memory merge of apply_migration *)

\* a str given by its characters, as one string
Text(chars) == Join(chars, "")

\* the loop that guesses a DepURL per package and keeps the first occurrences
RECURSIVE GuessedDepurls(_, _)
GuessedDepurls(depurls, legacy_packages) ==
    IF legacy_packages = <<>> THEN depurls
    ELSE LET d == guess_depurl_for_package(CharsOf[Head(legacy_packages)])
         IN  GuessedDepurls(IF d \in Range(depurls) THEN depurls
                            ELSE Append(depurls, d),
                            Tail(legacy_packages))

\* the platforms of an install mapping in the order the tables list them
InstallOrder == <<"linux", "macos", "windows">>

\* the lines 'install.<platform> = ...' of one platform of a static mapping
InstallLines(platform, cmd) ==
    IF cmd.kind = "list"
    THEN <<"install." \o platform \o " = [">>
         \o [i \in 1..Len(cmd.items) |-> "    \"" \o cmd.items[i] \o "\","]
         \o <<"]">>
    ELSE <<"install." \o platform \o " = \"" \o cmd.text \o "\"">>

\* the lines of one [tool.wads.external.ops.<name>] block of the preview
PreviewBlock(d) ==
    LET simple_name == depurl_to_simple_name(d)
    IN  <<"[tool.wads.external.ops." \o Text(simple_name) \o "]",
          "canonical_id = \"" \o Text(d) \o "\"">>
        \o (IF simple_name \in DOMAIN PACKAGE_METADATA
            THEN <<"rationale = \"" \o PACKAGE_METADATA[simple_name].rationale \o "\"",
                   "url = \"" \o PACKAGE_METADATA[simple_name].url \o "\"">>
            ELSE <<>>)
        \o (IF simple_name \in DOMAIN DEFAULT_INSTALL_COMMANDS
            THEN LET install_cmds == DEFAULT_INSTALL_COMMANDS[simple_name]
                 IN  Flatten([i \in 1..Len(InstallOrder) |->
                         IF InstallOrder[i] \in DOMAIN install_cmds
                         THEN InstallLines(InstallOrder[i], install_cmds[InstallOrder[i]])
                         ELSE <<>>])
            ELSE <<"install.linux = \"sudo apt-get install -y " \o Text(simple_name) \o "\"",
                   "install.macos = \"brew install " \o Text(simple_name) \o "\"">>)
        \o <<"">>

Rule == "# ============================================================================"

generate_migration_toml(a) ==
    IF a.legacy_packages = <<>> THEN "# No legacy dependencies to migrate"
    ELSE
        LET depurls == GuessedDepurls(<<>>, a.legacy_packages)
            lines ==
                <<Rule, "# EXTERNAL DEPENDENCIES (PEP 725)", Rule,
                  "# Migrated from [tool.wads.ci.testing.system_dependencies]", "",
                  "[external]", "# Runtime dependencies", "dependencies = [">>
                \o [i \in 1..Len(depurls) |-> "    \"" \o Text(depurls[i]) \o "\","]
                \o <<"]", "", Rule, "# WADS EXTERNAL OPERATIONS", Rule, "">>
                \o Flatten([i \in 1..Len(depurls) |-> PreviewBlock(depurls[i])])
        IN  Join(lines, "\n")

\* the ops entry apply_migration builds for a DepURL
SynthesizedEntry(d) ==
    LET simple_name == depurl_to_simple_name(d)
        known == simple_name \in DOMAIN PACKAGE_METADATA
    IN  [canonical_id |-> d,
         rationale |-> IF known THEN Some(PACKAGE_METADATA[simple_name].rationale) ELSE None,
         url |-> IF known THEN Some(PACKAGE_METADATA[simple_name].url) ELSE None,
         install |-> IF simple_name \in DOMAIN DEFAULT_INSTALL_COMMANDS
                     THEN Some(DEFAULT_INSTALL_COMMANDS[simple_name])
                     ELSE None]

\* the loop over depurls without 'if simple_name in ops: continue'
RECURSIVE MergeOps_overwriting(_, _)
MergeOps_overwriting(ops, depurls) ==
    IF depurls = <<>> THEN ops
    ELSE LET simple_name == depurl_to_simple_name(Head(depurls))
         IN  MergeOps_overwriting(
                 (simple_name :> SynthesizedEntry(Head(depurls))) @@ ops,
                 Tail(depurls))

\* the loop over depurls that fills data['tool']['wads']['external']['ops']
RECURSIVE MergeOps(_, _)
MergeOps(ops, depurls) ==
    IF depurls = <<>> THEN ops
    ELSE LET simple_name == depurl_to_simple_name(Head(depurls))
         IN  MergeOps(IF simple_name \in DOMAIN ops THEN ops
                      ELSE ops @@ (simple_name :> SynthesizedEntry(Head(depurls))),
                      Tail(depurls))

\* the statements without data['external']['dependencies'] = depurls
Migrated_ops_only(data, a) ==
    LET depurls == GuessedDepurls(<<>>, a.legacy_packages)
    IN  [data EXCEPT !.ops = MergeOps(data.ops, depurls)]

\* data after the statements between the backup and the write
Migrated(data, a) ==
    LET depurls == GuessedDepurls(<<>>, a.legacy_packages)
    IN  [data EXCEPT !.dependencies = Some(depurls),
                     !.ops = MergeOps(data.ops, depurls)]

\* the reasons printed when the document cannot be migrated
Reasons_without_manual_merge(a) ==
    (IF ~a.has_legacy_system_deps /\ ~a.has_legacy_env_install
     THEN <<"No legacy format found to migrate from">> ELSE <<>>)
    \o (IF a.has_legacy_env_install /\ a.legacy_packages = <<>>
        THEN <<"Found [tool.wads.ci.env.install] but it requires manual migration",
               "(install commands need to be mapped to specific packages)">>
        ELSE <<>>)
    \o (IF a.legacy_packages = <<>>
        THEN <<"No system dependencies declared to migrate">> ELSE <<>>)

Reasons(a) ==
    (IF ~a.has_legacy_system_deps /\ ~a.has_legacy_env_install
     THEN <<"No legacy format found to migrate from">> ELSE <<>>)
    \o (IF a.has_external_section
        THEN <<"Project already has [external] section (manual merge needed)">>
        ELSE <<>>)
    \o (IF a.has_legacy_env_install /\ a.legacy_packages = <<>>
        THEN <<"Found [tool.wads.ci.env.install] but it requires manual migration",
               "(install commands need to be mapped to specific packages)">>
        ELSE <<>>)
    \o (IF a.legacy_packages = <<>>
        THEN <<"No system dependencies declared to migrate">> ELSE <<>>)

----------------------------------------------------------------------------
(* The migration operations *)

\* analyze_migration_needed(pyproject_path)
AnalyzeMigrationNeeded ==
    /\ pc = "idle"
    /\ file.has => file.v.state = "whole"
    /\ \E a \in analyze_migration_needed(file) :
           analysis' = Some([source |-> file, result |-> a])
    /\ UNCHANGED <<doc, doc0, first, last, depurl, valid, simple, file, bak, pc, call, package_name, normalized_name>>

\* where apply_migration goes after its checks, with a dry run treated as a real one
AfterChecks_ignoring_dry_run(exists, can_auto_migrate, backup, dry_run) ==
    IF ~exists THEN "return False"
    ELSE IF ~can_auto_migrate THEN "return False"
    ELSE IF backup THEN "backup_open"
    ELSE "merge"

\* where apply_migration goes after its checks
AfterChecks(exists, can_auto_migrate, backup, dry_run) ==
    IF ~exists THEN "return False"
    ELSE IF ~can_auto_migrate THEN "return False"
    ELSE IF dry_run THEN "return True"
    ELSE IF backup THEN "backup_open"
    ELSE "merge"

\* apply_migration(pyproject_path, backup, dry_run) with tomli_w installed, up
\* to the end of its checks; the call records the two files as it found them
ApplyMigration(backup, dry_run) ==
    /\ pc = "idle"
    /\ file.has => file.v.state = "whole"
    /\ \E a \in analyze_migration_needed(file) :
        LET after == AfterChecks(file.has, a.can_auto_migrate, backup, dry_run)
            returns == after \in {"return False", "return True"}
        IN  /\ call' = [op |-> "apply",
                        backup |-> backup,
                        dry_run |-> dry_run,
                        source |-> file,
                        old_backup |-> bak,
                        analysis |-> IF file.has THEN Some(a) ELSE None,
                        data |-> IF file.has /\ a.can_auto_migrate
                                 THEN Some(file.v.data) ELSE None,
                        reasons |-> IF file.has /\ ~a.can_auto_migrate
                                    THEN Reasons(a) ELSE <<>>,
                        printed |-> IF after = "return True"
                                    THEN generate_migration_toml(a) ELSE "",
                        returned |-> IF returns THEN Some(after = "return True") ELSE None,
                        raised |-> FALSE]
            /\ pc' = IF returns THEN "idle" ELSE after
    /\ UNCHANGED <<doc, doc0, first, last, depurl, valid, simple, file, bak, analysis, package_name, normalized_name>>

\* open(backup_path, 'wb')
BackupOpen ==
    /\ pc = "backup_open"
    /\ bak' = Some(Truncated)
    /\ pc' = "backup_write"
    /\ UNCHANGED <<doc, doc0, first, last, depurl, valid, simple, file, call, analysis, package_name, normalized_name>>

\* dst.write(src.read()) that leaves the backup as it was opened
BackupWrite_nothing_written ==
    /\ pc = "backup_write"
    /\ pc' = "merge"
    /\ UNCHANGED <<doc, doc0, first, last, depurl, valid, simple, file, bak, call, analysis, package_name, normalized_name>>

\* dst.write(src.read()), and the two files closed
BackupWrite ==
    /\ pc = "backup_write"
    /\ bak' = file
    /\ pc' = "merge"
    /\ UNCHANGED <<doc, doc0, first, last, depurl, valid, simple, file, call, analysis, package_name, normalized_name>>

\* dst.write(src.read()) raising OSError
BackupWriteFails ==
    /\ pc = "backup_write"
    /\ bak' \in {Some(Truncated), Some(Partial)}
    /\ call' = [call EXCEPT !.raised = TRUE]
    /\ pc' = "idle"
    /\ UNCHANGED <<doc, doc0, first, last, depurl, valid, simple, file, analysis, package_name, normalized_name>>

\* the statements that build the migrated document in memory
Merge ==
    /\ pc = "merge"
    /\ call' = [call EXCEPT !.data = Some(Migrated(call.data.v, call.analysis.v))]
    /\ pc' = "target_open"
    /\ UNCHANGED <<doc, doc0, first, last, depurl, valid, simple, file, bak, analysis, package_name, normalized_name>>

\* open(pyproject_path, 'wb')
TargetOpen ==
    /\ pc = "target_open"
    /\ file' = Some(Truncated)
    /\ pc' = "dump"
    /\ UNCHANGED <<doc, doc0, first, last, depurl, valid, simple, bak, call, analysis, package_name, normalized_name>>

\* tomli_w.dump(data, f), the file closed, and return True
TargetDump ==
    /\ pc = "dump"
    /\ file' = Some(Whole(call.data.v, "tomli_w"))
    /\ call' = [call EXCEPT !.returned = Some(TRUE)]
    /\ pc' = "idle"
    /\ UNCHANGED <<doc, doc0, first, last, depurl, valid, simple, bak, analysis, package_name, normalized_name>>

\* tomli_w.dump(data, f) raising after it wrote nothing or a part
TargetDumpFails ==
    /\ pc = "dump"
    /\ file' \in {Some(Truncated), Some(Partial)}
    /\ call' = [call EXCEPT !.raised = TRUE]
    /\ pc' = "idle"
    /\ UNCHANGED <<doc, doc0, first, last, depurl, valid, simple, bak, analysis, package_name, normalized_name>>

\* no pyproject.toml, or one that its author wrote
InitMigration ==
    /\ doc = EmptyDocument
    /\ doc0 = doc
    /\ first = <<>>
    /\ last = NoCall
    /\ depurl = <<>>
    /\ valid = None
    /\ simple = None
    /\ package_name = <<>>
    /\ normalized_name = None
    /\ file \in {None} \cup {Some(Whole(d, "author")) : d \in MigrationDocuments}
    /\ bak = None
    /\ pc = "idle"
    /\ call = NoCall
    /\ analysis = None

NextMigration ==
    \/ AnalyzeMigrationNeeded
    \/ \E backup, dry_run \in BOOLEAN : ApplyMigration(backup, dry_run)
    \/ BackupOpen
    \/ BackupWrite
    \/ BackupWriteFails
    \/ Merge
    \/ TargetOpen
    \/ TargetDump
    \/ TargetDumpFails

SpecMigration == InitMigration /\ [][NextMigration]_vars

----------------------------------------------------------------------------
(* Claims about the migration analysis *)

\* analyze_migration_needed was called on an existing file
Analyzed == analysis.has /\ analysis.v.source.has

\* the document that analyze_migration_needed read
AnalyzedDocument == analysis.v.source.v.data

\* apply_migration was called on an existing file
Applied == call.op = "apply" /\ call.source.has

\* the document in the file when apply_migration was called
SourceDocument == call.source.v.data

\* the legacy declaration holds something: a list with an item, a mapping with a key
LegacyPresent(d) ==
    /\ d.system_dependencies.has
    /\ \/ /\ d.system_dependencies.v.kind = "list"
          /\ Len(d.system_dependencies.v.items) > 0
       \/ /\ d.system_dependencies.v.kind = "dict"
          /\ \E key \in Platforms : key \in DOMAIN d.system_dependencies.v.table

\* one of the three required lists holds a DepURL
RequiredPresent(d) ==
    \E l \in {d.build_requires, d.host_requires, d.dependencies} : l.has /\ Len(l.v) > 0

\* one of the declaration keys of [external] holds an entry
AnyExternalPresent(d) ==
    \/ RequiredPresent(d)
    \/ \E t \in {d.optional_dependencies, d.dependency_groups} :
           t.has /\ \E group \in DOMAIN t.v : Len(t.v[group]) > 0

ManualMerge == "Project already has [external] section (manual merge needed)"

\* C13: analyze_migration_needed sets can_auto_migrate to true if and only if
\* the legacy system_dependencies declaration is non-empty and none of
\* external.build-requires, external.host-requires, external.dependencies is
\* non-empty; guessing DepURLs for the packages never changes the verdict.
C13_AutoMigrateIffLegacyAndNoRequired ==
    /\ Analyzed =>
           (analysis.v.result.can_auto_migrate <=>
               LegacyPresent(AnalyzedDocument) /\ ~RequiredPresent(AnalyzedDocument))
    /\ (analysis.has /\ ~analysis.v.source.has) => ~analysis.v.result.can_auto_migrate

\* C13 witness: a document with two legacy packages and an optional
\* declaration was found auto-migratable
C13_Witness ==
    /\ Analyzed
    /\ analysis.v.result.can_auto_migrate
    /\ Len(analysis.v.result.legacy_packages) >= 2
    /\ AnalyzedDocument.optional_dependencies.has

----------------------------------------------------------------------------
(* Claims about the files apply_migration writes *)

\* apply_migration returned success for a call that was not a dry run
Succeeded == Applied /\ ~call.dry_run /\ call.returned = Some(TRUE)

\* C16: in every state reachable during apply_migration, the states after a
\* failed backup or a failed write included, the target file holds exactly
\* the original document or exactly the complete migrated document, never an
\* empty or partial file.
C16_TargetOriginalOrMigrated ==
    call.op = "apply" =>
        \/ file = call.source
        \/ /\ call.data.has
           /\ file = Some(Whole(call.data.v, "tomli_w"))

\* C17: with backup enabled on an auto-migratable document, the backup file
\* holds the bytes of the pre-migration source before the target is opened
\* for writing, and stays so for the rest of the call.
C17_BackupCompleteBeforeTargetOpened ==
    (Applied /\ call.backup) =>
        /\ pc \in {"merge", "target_open", "dump"} => bak = call.source
        /\ (pc = "idle" /\ file # call.source) => bak = call.source
        /\ Succeeded => bak = call.source

\* C17 witness: the target has just been opened for writing over a file its
\* author wrote, and the backup holds that file
C17_Witness ==
    /\ Applied
    /\ call.backup
    /\ pc = "dump"
    /\ file = Some(Truncated)
    /\ call.source.v.text = "author"
    /\ bak = call.source

\* the names under [tool.wads.external.ops] that the call added
AddedNames ==
    DOMAIN file.v.data.ops \ DOMAIN SourceDocument.ops

\* the packages of a legacy declaration
DeclaredPackages(d) ==
    LET value == d.system_dependencies.v
    IN  IF value.kind = "list" THEN {value.items[i] : i \in 1..Len(value.items)}
        ELSE {pkg \in DOMAIN CharsOf :
                 \E key \in DOMAIN value.table :
                     \E i \in 1..Len(value.table[key]) : value.table[key][i] = pkg}

PreviewInstall(n) ==
    IF n \in DOMAIN DEFAULT_INSTALL_COMMANDS THEN DEFAULT_INSTALL_COMMANDS[n]
    ELSE "linux" :> Str("sudo apt-get install -y " \o Text(n))
         @@ "macos" :> Str("brew install " \o Text(n))

\* C19: every ops entry that apply_migration synthesizes has a canonical_id
\* and an install mapping: the static commands when the simple name is in the
\* static table, otherwise the generic linux and macos commands built from
\* the simple name, as the preview generator emits.
C19_SynthesizedEntriesHaveInstall ==
    (Succeeded /\ file.has /\ file.v.state = "whole") =>
        \A n \in AddedNames :
            LET entry == file.v.data.ops[n]
            IN  /\ Len(entry.canonical_id) > 0
                /\ entry.install.has
                /\ entry.install.v = PreviewInstall(n)

\* C20: the recommendations hold 'already using PEP 725 format' only when the
\* document has no legacy system_dependencies and no env.install, and has
\* both required declarations and operational metadata; it is then the only
\* recommendation.
C20_AlreadyModernOnlyWhenLegacyFree ==
    (Analyzed /\ \E i \in 1..Len(analysis.v.result.recommendations) :
                     analysis.v.result.recommendations[i] = AlreadyModern) =>
        /\ ~LegacyPresent(AnalyzedDocument)
        /\ ~AnalyzedDocument.env_install.has
        /\ RequiredPresent(AnalyzedDocument)
        /\ AnalyzedDocument.ops # <<>>
        /\ Len(analysis.v.result.recommendations) = 1

----------------------------------------------------------------------------
(* Package names *)

\* the literal '-dev'
DevSuffix == <<"-", "d", "e", "v">>

\* what a generated package name is made of
PackagePieces ==
    {<<"l", "i", "b">>, DevSuffix, <<"1">>, <<"g">>, <<"c">>, <<" ">>, <<"Z">>}

\* what is appended to the keys of COMMON_PACKAGE_DEPURLS
KeySuffixes ==
    {DevSuffix, <<"1">>, <<"9">>, <<"1", "1">>, <<"1", "9">>, <<"9", "1">>, <<"9", "9">>}

PackageNames ==
    {Flatten(pieces) : pieces \in UNION {SeqsOfLen(PackagePieces, n) : n \in 0..MaxPieces}}
    \cup {key \o suffix : key \in DOMAIN COMMON_PACKAGE_DEPURLS, suffix \in KeySuffixes}

\* normalize_package_name(package)
NormalizePackageName ==
    /\ ~normalized_name.has
    /\ normalized_name' = Some(normalize_package_name(package_name))
    /\ UNCHANGED <<doc, doc0, first, last, depurl, valid, simple, file, bak, pc, call, analysis, package_name>>

\* guess_depurl_for_package(package)
GuessDepurlForPackage ==
    /\ depurl = <<>>
    /\ depurl' = guess_depurl_for_package(package_name)
    /\ UNCHANGED <<doc, doc0, first, last, valid, simple, file, bak, pc, call, analysis, package_name, normalized_name>>

\* the package-name functions applied to any of the names
InitPackageName ==
    /\ doc = EmptyDocument
    /\ doc0 = doc
    /\ first = <<>>
    /\ last = NoCall
    /\ depurl = <<>>
    /\ valid = None
    /\ simple = None
    /\ NoMigration
    /\ package_name \in PackageNames
    /\ normalized_name = None

\* normalize_package_name, guess_depurl_for_package, and _validate_depurl on
\* what was guessed
NextPackageName ==
    \/ NormalizePackageName
    \/ GuessDepurlForPackage
    \/ (depurl # <<>> /\ ValidateDepurl)

SpecPackageName == InitPackageName /\ [][NextPackageName]_vars

\* every character is a decimal digit
AllDigits(s) == \A i \in 1..Len(s) : s[i] \in Digits

\* the name is the key followed by '-dev' or by one or more digits
SuffixedKey(name, key) ==
    /\ Len(name) > Len(key)
    /\ \A i \in 1..Len(key) : name[i] = key[i]
    /\ LET rest == [i \in 1..(Len(name) - Len(key)) |-> name[Len(key) + i]]
       IN  rest = DevSuffix \/ AllDigits(rest)

\* C21: for every key n of the static package table,
\* guess_depurl_for_package applied to n followed by '-dev', or to n followed
\* by digits, returns the DepURL it returns for n.
C21_SuffixedKeyGuessedAsKey ==
    depurl # <<>> =>
        \A key \in DOMAIN COMMON_PACKAGE_DEPURLS :
            SuffixedKey(package_name, key) => depurl = COMMON_PACKAGE_DEPURLS[key]

\* the name without its last n characters
DropLast(s, n) == [i \in 1..(Len(s) - n) |-> s[i]]

\* the number of digits the name ends with
TrailingDigits(s) ==
    LET runs == {n \in 0..Len(s) : \A i \in (Len(s) - n + 1)..Len(s) : s[i] \in Digits}
    IN  CHOOSE n \in runs : \A m \in runs : m <= n

\* one trailing '-dev' removed, then all trailing digits, then a leading 'lib'
\* that something follows
StepsInOrder(name) ==
    LET a == IF Len(name) >= 4 /\ [i \in 1..4 |-> name[Len(name) - 4 + i]] = DevSuffix
             THEN DropLast(name, 4) ELSE name
        b == DropLast(a, TrailingDigits(a))
    IN  IF Len(b) > 3 /\ b[1] = "l" /\ b[2] = "i" /\ b[3] = "b"
        THEN [i \in 1..(Len(b) - 3) |-> b[i + 3]]
        ELSE b

\* C25: normalize_package_name(name) is the trimmed, lower-cased name with
\* one trailing '-dev' removed, then all trailing digits removed, then 'lib'
\* removed only when it is a leading prefix; a 'lib' elsewhere is kept.
C25_LibRemovedOnlyAsPrefix ==
    normalized_name.has =>
        normalized_name.v = StepsInOrder(Strip(Lower(package_name)))

\* C29: for every package name, guess_depurl_for_package returns a string
\* that _validate_depurl accepts.
C29_GuessIsValid ==
    (depurl # <<>> /\ valid.has) => valid.v

\* ---------------------------------------------------------------------------
\* Settings and their defaults
\* ---------------------------------------------------------------------------

\* every setting of [tool.wads.ci] and every role of [external], present with
\* a value that differs from the accessor's default
AllSettingsPresent ==
    [pre_test |-> Some(<<"make data">>),
     test |-> Some(<<"pytest -x">>),
     post_test |-> Some(<<"make clean">>),
     lint |-> Some(<<"ruff check .">>),
     format |-> Some(<<"ruff format .">>),
     env_required |-> Some(<<"API_KEY">>),
     env_defaults |-> Some("LOG" :> "debug"),
     ruff_enabled |-> Some(FALSE),
     black_enabled |-> Some(TRUE),
     mypy_enabled |-> Some(TRUE),
     python_versions |-> Some(<<"3.11">>),
     pytest_args |-> Some(<<"-q">>),
     coverage_enabled |-> Some(FALSE),
     coverage_threshold |-> Some(80),
     exclude_paths |-> Some(<<"scrap">>),
     test_on_windows |-> Some(FALSE),
     system_dependencies |-> Some(List(<<"ffmpeg">>)),
     sdist |-> Some(FALSE),
     wheel |-> Some(FALSE),
     publish_enabled |-> Some(FALSE),
     docs_enabled |-> Some(FALSE),
     docs_builder |-> Some("sphinx"),
     docs_ignore_paths |-> Some(<<"tests/">>),
     build_requires |-> Some(<<dCX>>),
     host_requires |-> Some(<<dA>>),
     dependencies |-> Some(<<dA, dCX>>),
     optional_build_requires |-> Some("extra" :> <<dCX>>),
     optional_host_requires |-> Some("extra" :> <<dA>>),
     optional_dependencies |-> Some("extra" :> <<dA>>),
     dependency_groups |-> Some("dev" :> <<dCX>>)]

SettingKeys == DOMAIN AllSettingsPresent

\* nothing set, everything set, exactly one setting, all but one setting
SettingSubsets ==
    {{}, SettingKeys} \cup {{k} : k \in SettingKeys} \cup {SettingKeys \ {k} : k \in SettingKeys}

ProjectNames == {None, Some("pkg")}

CIProjectNames == {None, Some("ci-pkg")}

SettingsDocuments ==
    {[k \in SettingKeys |-> IF k \in present THEN AllSettingsPresent[k] ELSE None]
        @@ [project_name |-> p, ci_project_name |-> c, ops |-> <<>>, env_install |-> None] :
        present \in SettingSubsets, p \in ProjectNames, c \in CIProjectNames}

\* the properties of CIConfig
Accessors ==
    {"project_name", "commands_pre_test", "commands_test", "commands_post_test",
     "commands_lint", "commands_format", "env_vars_required", "env_vars_defaults",
     "is_ruff_enabled", "is_black_enabled", "is_mypy_enabled", "python_versions",
     "pytest_args", "coverage_enabled", "coverage_threshold", "exclude_paths",
     "test_on_windows", "system_dependencies", "external_dependencies", "external_ops",
     "build_sdist", "build_wheel", "publish_enabled", "docs_enabled", "docs_builder",
     "docs_ignore_paths"}

\* getattr(config, name)
Accessor(config, name) ==
    LET d == config.pyproject_data
    IN  CASE name = "project_name" -> config.project_name
          [] name = "commands_pre_test" -> commands_pre_test(d)
          [] name = "commands_test" -> commands_test(d)
          [] name = "commands_post_test" -> commands_post_test(d)
          [] name = "commands_lint" -> commands_lint(d)
          [] name = "commands_format" -> commands_format(d)
          [] name = "env_vars_required" -> env_vars_required(d)
          [] name = "env_vars_defaults" -> env_vars_defaults(d)
          [] name = "is_ruff_enabled" -> is_ruff_enabled(d)
          [] name = "is_black_enabled" -> is_black_enabled(d)
          [] name = "is_mypy_enabled" -> is_mypy_enabled(d)
          [] name = "python_versions" -> python_versions(d)
          [] name = "pytest_args" -> pytest_args(d)
          [] name = "coverage_enabled" -> coverage_enabled(d)
          [] name = "coverage_threshold" -> coverage_threshold(d)
          [] name = "exclude_paths" -> exclude_paths(d)
          [] name = "test_on_windows" -> test_on_windows(d)
          [] name = "system_dependencies" -> system_dependencies(d)
          [] name = "external_dependencies" -> external_dependencies(d)
          [] name = "external_ops" -> external_ops(d)
          [] name = "build_sdist" -> build_sdist(d)
          [] name = "build_wheel" -> build_wheel(d)
          [] name = "publish_enabled" -> publish_enabled(d)
          [] name = "docs_enabled" -> docs_enabled(d)
          [] name = "docs_builder" -> docs_builder(d)
          [] name = "docs_ignore_paths" -> docs_ignore_paths(d)

\* the names a caller may supply: none, the empty string, a name
SuppliedNames == {None, Some(""), Some("supplied")}

get_ci_config_or_defaults(f, name) ==
    IF ~f.has
    THEN CIConfig([EmptyDocument EXCEPT !.project_name = Some(IF Truthy(name) THEN name.v ELSE "")],
                  name)
    ELSE read_ci_config(f)

\* CIConfig(data).<name>
ReadSetting(name) ==
    /\ last' = [op |-> "accessor", name |-> name,
                result |-> Accessor(CIConfig(doc, None), name)]
    /\ UNCHANGED <<doc, doc0, first, depurl, valid, simple, file, bak, pc, call, analysis, package_name, normalized_name>>

\* get_ci_config_or_defaults(path, name), the file at the path missing or
\* holding the document
GetCIConfigOrDefaults(name) ==
    /\ last' = [op |-> "get_ci_config_or_defaults", supplied |-> name,
                result |-> get_ci_config_or_defaults(file, name)]
    /\ UNCHANGED <<doc, doc0, first, depurl, valid, simple, file, bak, pc, call, analysis, package_name, normalized_name>>

InitSettings ==
    /\ doc \in SettingsDocuments
    /\ doc0 = doc
    /\ first = <<>>
    /\ last = NoCall
    /\ depurl = <<>>
    /\ valid = None
    /\ simple = None
    /\ file \in {None, Some(Whole(doc, "author"))}
    /\ bak = None
    /\ pc = "idle"
    /\ call = NoCall
    /\ analysis = None
    /\ package_name = <<>>
    /\ normalized_name = None

NextSettings ==
    \/ \E name \in Accessors : ReadSetting(name)
    \/ \E name \in SuppliedNames : GetCIConfigOrDefaults(name)

SpecSettings == InitSettings /\ [][NextSettings]_vars

\* the document keys an accessor reads
SettingsRead(name) ==
    CASE name = "commands_pre_test" -> {"pre_test"}
      [] name = "commands_test" -> {"test"}
      [] name = "commands_post_test" -> {"post_test"}
      [] name = "commands_lint" -> {"lint"}
      [] name = "commands_format" -> {"format"}
      [] name = "env_vars_required" -> {"env_required"}
      [] name = "env_vars_defaults" -> {"env_defaults"}
      [] name = "python_versions" -> {"python_versions"}
      [] name = "pytest_args" -> {"pytest_args"}
      [] name = "coverage_enabled" -> {"coverage_enabled"}
      [] name = "coverage_threshold" -> {"coverage_threshold"}
      [] name = "exclude_paths" -> {"exclude_paths"}
      [] name = "test_on_windows" -> {"test_on_windows"}
      [] name = "build_sdist" -> {"sdist"}
      [] name = "build_wheel" -> {"wheel"}
      [] name = "publish_enabled" -> {"publish_enabled"}
      [] name = "docs_enabled" -> {"docs_enabled"}
      [] name = "docs_builder" -> {"docs_builder"}
      [] name = "docs_ignore_paths" -> {"docs_ignore_paths"}
      [] name = "external_dependencies" ->
            {"build_requires", "host_requires", "dependencies", "optional_build_requires",
             "optional_host_requires", "optional_dependencies", "dependency_groups"}
      [] name \in {"is_ruff_enabled", "is_black_enabled", "is_mypy_enabled"} ->
            {"ruff_enabled", "black_enabled", "mypy_enabled"}
      [] OTHER -> {}

\* the default the documentation gives for an accessor
DocumentedDefault(name) ==
    CASE name = "commands_test" -> <<"pytest">>
      [] name \in {"commands_pre_test", "commands_post_test", "commands_lint",
                   "commands_format", "env_vars_required", "env_vars_defaults"} -> <<>>
      [] name = "coverage_enabled" -> TRUE
      [] name = "coverage_threshold" -> 0
      [] name = "python_versions" -> <<"3.10", "3.12">>
      [] name = "pytest_args" -> <<"-v", "--tb=short">>
      [] name = "exclude_paths" -> <<"examples", "scrap">>
      [] name \in {"test_on_windows", "build_sdist", "build_wheel", "publish_enabled",
                   "docs_enabled"} -> TRUE
      [] name = "docs_builder" -> "epythet"
      [] name = "docs_ignore_paths" -> <<"tests/", "scrap/", "examples/">>
      [] name = "external_dependencies" ->
            [build |-> <<>>, host |-> <<>>, runtime |-> <<>>, optional_build |-> <<>>,
             optional_host |-> <<>>, optional_runtime |-> <<>>, groups |-> <<>>]

Defaulted ==
    {"commands_test", "commands_pre_test", "commands_post_test", "commands_lint",
     "commands_format", "env_vars_required", "env_vars_defaults", "coverage_enabled",
     "coverage_threshold", "python_versions", "pytest_args", "exclude_paths",
     "test_on_windows", "build_sdist", "build_wheel", "publish_enabled", "docs_enabled",
     "docs_builder", "docs_ignore_paths", "external_dependencies"}

\* the last call read the accessor from a document in which none of the keys
\* it reads is set
ReadAbsent(name) ==
    /\ last.op = "accessor"
    /\ last.name = name
    /\ \A k \in SettingsRead(name) : ~doc[k].has

\* C22: an accessor whose setting is absent returns its documented default:
\* ['pytest'] for the test commands, nothing for the pre-test, post-test, lint
\* and format commands and for the required and defaulted environment
\* variables, coverage enabled with threshold 0, Python 3.10 and 3.12,
\* pytest arguments -v --tb=short, excluded paths examples and scrap, Windows
\* testing on, sdist, wheel, publishing and docs on, the epythet builder,
\* ignored paths tests/ scrap/ examples/, and all seven roles of the
\* external dependencies present and empty.
C22_AbsentSettingsDefault ==
    \A name \in Defaulted : ReadAbsent(name) => last.result = DocumentedDefault(name)

\* the Python versions are read from a document that sets everything else
C22_Witness ==
    /\ ReadAbsent("python_versions")
    /\ \A k \in SettingKeys \ {"python_versions"} : doc[k].has
    /\ last.result = <<"3.10", "3.12">>

QualityTools == {"is_ruff_enabled", "is_black_enabled", "is_mypy_enabled"}

\* C23 as stated: with no quality section, none of ruff, black and mypy is
\* enabled.
C23_QualityToolsOffByDefault ==
    \A name \in QualityTools : ReadAbsent(name) => last.result = FALSE

\* C23: with no quality section, black and mypy are disabled and ruff is
\* enabled.
C23_OnlyRuffOnByDefault ==
    \A name \in QualityTools : ReadAbsent(name) => last.result = (name = "is_ruff_enabled")

\* black is read from a document without any quality settings
C23_Witness ==
    /\ ReadAbsent("is_black_enabled")
    /\ last.result = FALSE

\* the configuration defines a project name
DefinesProjectName(d) == d.project_name.has \/ d.ci_project_name.has

\* C24: the supplied project name is the fallback whenever the configuration
\* defines none: the file is missing, or it is present without project.name
\* and without tool.wads.ci.project_name.
C24_SuppliedNameIsFallback ==
    (/\ last.op = "get_ci_config_or_defaults"
     /\ last.supplied.has
     /\ file.has => ~DefinesProjectName(file.v.data))
        => last.result.project_name = last.supplied.v

----------------------------------------------------------------------------
(* Claims about repeated and compared migrations *)

\* apply_migration was called on a file that an earlier apply_migration wrote
AppliedAgain == Applied /\ call.source.v.text = "tomli_w"

\* C26: a migration is applied at most once. After a successful non-dry-run
\* apply_migration on a document whose legacy declaration names at least one
\* package, the legacy declaration is still there and external.dependencies
\* is non-empty; every later apply_migration on that file returns False and
\* leaves the file as it was.
C26_AppliedAtMostOnce ==
    /\ (Succeeded /\ DeclaredPackages(SourceDocument) # {}) =>
           /\ file.has
           /\ file.v.state = "whole"
           /\ LegacyPresent(file.v.data)
           /\ file.v.data.dependencies.has
           /\ Len(file.v.data.dependencies.v) > 0
    /\ (AppliedAgain /\ DeclaredPackages(SourceDocument) # {}) =>
           /\ pc = "idle"
           /\ call.returned = Some(FALSE)
           /\ ~call.raised
           /\ file = call.source

\* C26 witness: a second, non-dry-run apply_migration on a migrated file
\* that names packages came back with False
C26_Witness ==
    /\ AppliedAgain
    /\ ~call.dry_run
    /\ DeclaredPackages(SourceDocument) # {}
    /\ call.returned = Some(FALSE)
    /\ file = call.source

\* C27: can_auto_migrate == true implies a non-empty legacy_packages, so a
\* successful apply_migration writes at least one DepURL, also for a mapping
\* whose platform lists are all empty.
C27_AutoMigrateWritesADepurl ==
    /\ (Analyzed /\ analysis.v.result.can_auto_migrate) =>
           analysis.v.result.legacy_packages # <<>>
    /\ Succeeded =>
           /\ file.v.data.dependencies.has
           /\ Len(file.v.data.dependencies.v) > 0

\* C28: after a successful apply_migration on a document without ops
\* entries, the DepURLs of external.dependencies are pairwise distinct and
\* each of them has an ops entry under its simple name whose canonical_id is
\* that DepURL.
C28_EveryDepurlHasItsEntry ==
    (Succeeded /\ SourceDocument.ops = <<>>) =>
        LET dependencies == file.v.data.dependencies.v
            ops == file.v.data.ops
        IN  /\ \A i, j \in 1..Len(dependencies) :
                   dependencies[i] = dependencies[j] => i = j
            /\ \A i \in 1..Len(dependencies) :
                   /\ depurl_to_simple_name(dependencies[i]) \in DOMAIN ops
                   /\ ops[depurl_to_simple_name(dependencies[i])].canonical_id
                          = dependencies[i]

\* C30: the analysis is deterministic. An analysis and an apply_migration
\* that read the same file find the same legacy_packages in the same order,
\* and the migration writes the DepURLs in the order the analysis found.
C30_SameFileSameOrder ==
    (Analyzed /\ Applied /\ analysis.v.source = call.source) =>
        /\ call.analysis.v.legacy_packages = analysis.v.result.legacy_packages
        /\ Succeeded =>
               file.v.data.dependencies.v
                   = GuessedDepurls(<<>>, analysis.v.result.legacy_packages)

====
